---- MODULE Spec2Model ----
(***************************************************************************)
(* Model of the agent analysis loop of qualagent-bridge: the workflow      *)
(* graph (agents/workflow_builder.py), the plan and tool-execution nodes   *)
(* (agents/state_handler.py), pre/postprocessing (agents/data_processor.py)*)
(* and the planning cache (services/cache.py).                             *)
(*                                                                         *)
(* The workflow is a langgraph StateGraph.  Every edge of build_workflow   *)
(* is unconditional, so a node that finishes triggers all of its           *)
(* successors; the nodes triggered in one superstep run concurrently and   *)
(* the nodes they trigger run in the next superstep.  The graph runner     *)
(* stops a run with an error once the recursion limit of supersteps is     *)
(* used up.  Each node invocation is one atomic step of the model, except  *)
(* analyze_data, which is split at the await between cache.get and the     *)
(* LLM call so that other runs' cache operations can fall in between.      *)
(* A node applies its returned state to the run's state as one update.     *)
(*                                                                         *)
(* Spec explores two concurrent runs of one agent on one input, which      *)
(* therefore share a cache key; MaxNodeRuns bounds the node invocations    *)
(* explored over both runs together.  SpecExec applies execute_tools to    *)
(* the states a caller can hand it; SpecFlagOff starts the runs with the   *)
(* cache feature flag off on a table that may already hold rows.           *)
(*                                                                         *)
(* The services are also explored on their own: SpecCache applies get,     *)
(* set, delete and cleanup_expired of services/cache.py while the clock    *)
(* advances, SpecCleanup runs two concurrent cleanup tasks against         *)
(* clients that store and delete, and SpecExtract follows one call of      *)
(* ParamExtractor.extract_with_fallback (services/param_extractor.py)      *)
(* through its provider retry loops and its rule-based fallback.           *)
(*                                                                         *)
(* Components that exist twice (agents/tool_manager.py and                 *)
(* agents/data_processor.py on one side, AnalysisOrchestrator in           *)
(* agents/orchestrator.py on the other) are applied side by side to the    *)
(* same input: SpecInfer for the tool-name inference, SpecThemes for the   *)
(* theme consolidation, SpecText for the text items of preprocess.         *)
(* SpecJob follows one analysis job through AnalysisService.run_analysis   *)
(* next to a client of the status stream (SpecJobFair adds the fairness    *)
(* of the background task), SpecMemory reads memory rows with and without  *)
(* tagging, SpecSource follows document_ids from the text items to the     *)
(* quotes of the report, and SpecSearch applies one document search to a   *)
(* store whose mechanisms may fail.  SpecSummary applies preprocess_data   *)
(* to a context of memories and a summarizer that may fail, SpecPlan       *)
(* applies analyze_data to a cache whose get and set may fail, SpecPoll    *)
(* follows the polling loop of _extract_replicate (SpecPollFair lets it    *)
(* run whenever it can), and SpecFetch applies the grouping of             *)
(* fetch_memories to the rows a query returns.                             *)
(***************************************************************************)
EXTENDS Integers, Sequences, FiniteSets, TLC

\* ------------------------------------------------------------------ bounds
\* Supersteps the graph runner allows per run (langgraph's recursion limit,
\* lowered to keep the model finite).
RecursionLimit == 7
\* Node invocations explored over all runs together.
MaxNodeRuns == 11
\* How many times the clock may advance.
MaxTicks == 1
\* How many seconds may pass while the cache service is exercised on its own.
MaxCacheTicks == 2
MaxThemes == 3
MaxItems == 2
MaxTaggings == 2
MaxSentences == 7
MaxPending == 3
MaxRows == 3
MaxExtraPolls == 3

\* --------------------------------------------------------- program constants
\* agent_config.get("max_tool_calls", 3)
DefaultMaxToolCalls == 3
\* settings.SEARCH_CACHE_TTL, the default ttl of DBCache.set
SEARCH_CACHE_TTL == 300
poll_interval == 2
timeout == 600
\* Scores are counted in hundredths: 50 is the score 0.5.
FallbackScore == 50
SummaryWordLimit == 100
SummarySentences == 5
ToolWordLimit == 150
\* max_retries of ParamExtractor.extract
DefaultMaxRetries == 2
\* @retry(stop=stop_after_attempt(2)) on _extract_replicate
TenacityAttempts == 2

\* ------------------------------------------------------------------ domains
Runs == {"r1", "r2"}

\* Values of agent_config["max_tool_calls"]; NoConfig is a configuration
\* without that key.
NoConfig == 0 - 1
AgentConfigs == {NoConfig, 1}

\* Combined input texts of a run (preprocessed_data["text_data"] joined).
Texts == {"interview"}
ResearchObjective == "objective"

\* LLM planning responses, each the set of lower-cased words of the text.
Responses == {{"use", "search"}, {"look", "at", "themes"}}

\* Text of the postprocess LLM synthesis.
Summaries == {"synthesis"}

NoTool == "<absent>"
NoMethod == "<absent>"
NoError == "<absent>"

Nodes == {"preprocess", "analyze", "tool_execution", "postprocess"}

VARIABLES
    enableCache,       \* settings.ENABLE_CACHE
    now,               \* time.time(), in seconds
    ticks,             \* number of clock advances so far
    nodeRuns,          \* node invocations started so far, over all runs
    cache,             \* rows of table cache_entries
    input,             \* per run: combined input text
    cfg,               \* per run: max_tool_calls of the agent_config that
                       \* execute_tools reads (or NoConfig); the runs are
                       \* jobs of one agent
    active,            \* per run: nodes still to run in the current superstep
    triggered,         \* per run: nodes triggered for the next superstep
    superstep,         \* per run: supersteps started
    status,            \* per run: "running" | "returned" | "raised"
    planning,          \* per run: analyze_data is suspended before its LLM call
    steps,             \* per run: intermediate_results["analysis_steps"]
    tool_results,      \* per run: intermediate_results["tool_results"]
    next_tool,         \* per run: intermediate_results["next_tool"]
    tool_params,       \* per run: intermediate_results["tool_params"]
    analysis_complete, \* per run: intermediate_results["analysis_complete"]
    tool_error,        \* per run: intermediate_results["tool_error"]
    cache_hit,         \* per run: intermediate_results["cache_hit"]
    final_results,     \* per run: state["final_results"], {} while absent
    event,             \* per run: what the last node invocation did
    plannedSince,      \* per run: analyze_data completed since the last
                       \* invocation of execute_tools
    llmCalls,          \* per run: planning LLM calls made so far
    extractCalls,      \* per run: parameter-extraction calls made so far
    lastOp,            \* the cache operation a client completed last
    cleaner,           \* per cleanup task: its position in cleanup_expired
    call,              \* arguments of the extract_with_fallback call
    extractPc,         \* position of the extract_with_fallback call
    loop,              \* the provider retry loop the call is in
    attempts,          \* LLM extraction attempts of the call, in order
    extracted,         \* what extract_with_fallback returned
    response_text,     \* the text tool-name inference is applied to
    inferred,          \* per implementation: the tool name it returned
    themes,            \* the themes built from the tool results, in order
    themesPc,          \* "built" or "consolidated"
    merged,            \* per implementation: the consolidated themes
    input_data,        \* the input preprocess is given
    preprocessed,      \* preprocess has run
    text_data,         \* per implementation: the TextItems it produced
    job,               \* the Analysis row: status, results, error
    runPc,             \* where run_analysis stands
    raised,            \* the step of run_analysis that raised, if any
    caught,            \* the memory operations whose exception was caught
    agentExists,       \* the job's agent is in the database
    streamPc,          \* where the status stream's event_generator stands
    elapsed,           \* the stream's count of seconds slept
    disconnected,      \* the streaming client has gone
    streamEvent,       \* the last event the stream yielded
    memoryTag,         \* per memory row: its tag column ("" is NULL)
    tagged,            \* per memory row: how often tag_memory classified it
    documentIds,       \* the document_ids of the preprocessed TextItems
    insightParams,     \* the document_metadata planned for generate_insight
    insightSources,    \* source document_ids of the insights in tool_results
    reportSources,     \* source document_ids of the quotes of the report
    sourcePc,          \* "plan", "execute" or "reported"
    searchInput,       \* a document search: its min_score and what is stored
    searched,          \* the search has returned
    storeResult,       \* what similarity_search did
    toolResult,        \* what document_search returned
    contextMemories,   \* how many memories the input's context carries
    summarizer,        \* what summarize_memory meets: its outcome and texts
    preprocessedPc,    \* preprocess_data has returned
    prepared,          \* the state preprocess_data returned
    planIn,            \* one call of analyze_data: its state and environment
    planPc,            \* the call has returned
    planOut,           \* what the call did and returned
    prediction,        \* the statuses Replicate will report, the last for good
    pollPc,            \* where the polling loop of _extract_replicate stands
    polls,             \* GET requests the loop has made, modulo MaxPolls
    fetchIn,           \* one fetch_memories call: the table's rows, k, the flag
    fetchPc,           \* the call has returned
    fetched            \* the list the call returned

runVars == <<input, cfg, active, triggered, superstep, status, planning, steps,
             tool_results, next_tool, tool_params, analysis_complete,
             tool_error, cache_hit, final_results, event, plannedSince,
             llmCalls, extractCalls>>

cacheOpVars == <<lastOp, cleaner>>

extractVars == <<call, extractPc, loop, attempts, extracted>>

inferVars == <<response_text, inferred>>

\* Variables of the components that are explored on their own.
themeVars == <<themes, themesPc, merged>>

textVars == <<input_data, preprocessed, text_data>>

jobVars == <<job, runPc, raised, caught, agentExists>>

streamVars == <<streamPc, elapsed, streamEvent>>

memoryVars == <<memoryTag, tagged>>

searchVars == <<searchInput, searched, storeResult, toolResult>>

summaryVars == <<contextMemories, summarizer, preprocessedPc, prepared>>

planVars == <<planIn, planPc, planOut>>

pollVars == <<prediction, pollPc, polls>>

fetchVars == <<fetchIn, fetchPc, fetched>>

sourceVars == <<documentIds, insightParams, insightSources, reportSources,
                sourcePc>>

componentVars == <<inferVars, themeVars, textVars, jobVars, streamVars,
                   disconnected, memoryVars, sourceVars, searchVars,
                   summaryVars, planVars, pollVars, fetchVars>>

vars == <<enableCache, now, ticks, nodeRuns, cache, input, cfg, active, triggered,
          superstep, status, planning, steps, tool_results, next_tool,
          tool_params, analysis_complete, tool_error, cache_hit,
          final_results, event, plannedSince, llmCalls, extractCalls,
          lastOp, cleaner, call, extractPc, loop, attempts, extracted,
          componentVars>>

sharedVars == <<enableCache, now, ticks, cache>>

\* --------------------------------------------------------------- helpers
Last(s) == s[Len(s)]

NoParams == [args |-> "<absent>", method |-> NoMethod]

\* max_tool_calls = agent_config.get("max_tool_calls", 3)
MaxToolCalls(c) == IF c = NoConfig THEN DefaultMaxToolCalls ELSE c

\* ------------------------------------------------- tool selection and params
\* Keywords that occur as substrings of a lower-cased word of a response.
KeywordsIn(w) ==
    CASE w = "document_search"    -> {"document_search", "search"}
      [] w = "research"           -> {"search"}
      [] w = "generate_insight"   -> {"generate_insight", "insight"}
      [] w = "insights"           -> {"insight"}
      [] w = "sentiment_analysis" -> {"sentiment_analysis", "sentiment"}
      [] w = "theme_cluster"      -> {"theme_cluster", "cluster"}
      [] w = "clusters"           -> {"cluster"}
      [] w = "llm_router"         -> {"router"}
      [] OTHER                    -> {w}

\* kw in response_lower
Occurs(kw, text) == \E w \in text : kw \in KeywordsIn(w)

\* str.lower() of a word; the words not listed are lower-case already.
LowerWord(w) ==
    CASE w = "Search"  -> "search"
      [] w = "ROUTER"  -> "router"
      [] w = "Cluster" -> "cluster"
      [] OTHER         -> w

\* response_text.lower()
Lower(text) == {LowerWord(w) : w \in text}

\* tool_manager.extract_tool_from_response
extract_tool_from_response(text) ==
    LET response_lower == Lower(text)
    IN  IF Occurs("document_search", response_lower)
               \/ Occurs("search", response_lower)
            THEN "document_search"
        ELSE IF Occurs("generate_insight", response_lower)
               \/ Occurs("insight", response_lower)
            THEN "generate_insight"
        ELSE IF Occurs("sentiment_analysis", response_lower)
               \/ Occurs("sentiment", response_lower)
            THEN "sentiment_analysis"
        ELSE IF Occurs("theme_cluster", response_lower)
               \/ Occurs("cluster", response_lower)
            THEN "theme_cluster"
        ELSE IF Occurs("router", response_lower)
            THEN "llm_router"
        ELSE IF Occurs("summarize_memory", response_lower)
            THEN "summarize_memory"
        ELSE "generate_insight"

\* AnalysisOrchestrator._extract_tool_from_response, which has no test for
\* summarize_memory.
OrchestratorExtractTool(text) ==
    LET response_lower == Lower(text)
    IN  IF Occurs("document_search", response_lower)
               \/ Occurs("search", response_lower)
            THEN "document_search"
        ELSE IF Occurs("generate_insight", response_lower)
               \/ Occurs("insight", response_lower)
            THEN "generate_insight"
        ELSE IF Occurs("sentiment_analysis", response_lower)
               \/ Occurs("sentiment", response_lower)
            THEN "sentiment_analysis"
        ELSE IF Occurs("theme_cluster", response_lower)
               \/ Occurs("cluster", response_lower)
            THEN "theme_cluster"
        ELSE IF Occurs("router", response_lower)
            THEN "llm_router"
        ELSE "generate_insight"

\* Words of the response texts the inference is applied to.
Vocabulary ==
    {"Search", "research", "insights", "sentiment", "theme_cluster",
     "Cluster", "ROUTER", "summarize_memory", "please", "group"}

Implementations == {"tool_manager", "orchestrator"}

\* The inference has not been applied yet.
NotInferred == [i \in Implementations |-> NoTool]

NoInference ==
    /\ response_text = {}
    /\ inferred = NotInferred

\* get_default_params(tool) validates against get_schema_for_tool(tool) for
\* every tool but summarize_memory, whose schema requires "memories" while
\* its defaults only carry "text".
DefaultsValidate(tool) == tool # "summarize_memory"

\* Outcomes of param_extractor.extract_with_fallback for a tool: the LLM
\* extraction validates ("llm"), or it fails and the defaults are used
\* ("fallback"), or the defaults do not validate either and it raises.
ExtractOutcomes(tool) ==
    {"llm"} \cup (IF DefaultsValidate(tool) THEN {"fallback"} ELSE {"raises"})

\* tool_params as analyze_data builds them from the extraction outcome; when
\* extract_with_fallback raises, extract_tool_params supplies the defaults
\* without an _extraction_method key.
PlannedParams(outcome) ==
    CASE outcome = "llm"      -> [args |-> "extracted", method |-> "llm"]
      [] outcome = "fallback" -> [args |-> "defaults", method |-> "fallback"]
      [] OTHER                -> [args |-> "defaults", method |-> NoMethod]

\* tool_map of execute_tools.
ToolMap == {"document_search", "generate_insight", "sentiment_analysis",
            "theme_cluster", "llm_router", "summarize_memory"}

\* Outcomes of tool_fn.ainvoke(tool_params).  state_handler imports
\* summarize_memory from the package, which yields the submodule and not the
\* tool, so its ainvoke always raises.
ToolOutcomes(tool) ==
    IF tool = "summarize_memory" THEN {"raises"} ELSE {"ok", "raises"}

\* ---------------------------------------------------------- planning cache
\* cache.generate_key("analysis_plan", text_hash=..., research_objective=...,
\* agent_config_hash=...)
CacheKey(text, c) ==
    [prefix |-> "analysis_plan", text_hash |-> text,
     research_objective |-> ResearchObjective, agent_config_hash |-> c]

\* json.dumps / json.loads of one analysis step.
DumpStep(st) ==
    [analysis |-> st.analysis,
     is_final |-> IF st.is_final THEN "true" ELSE "false"]

LoadStep(js) ==
    [analysis |-> js.analysis, is_final |-> (js.is_final = "true")]

\* json.dumps(value, default=str) of the cached plan.
Serialize(plan) ==
    [next_tool |-> plan.next_tool, tool_params |-> plan.tool_params,
     analysis_steps |-> [i \in 1..Len(plan.analysis_steps) |->
                            DumpStep(plan.analysis_steps[i])]]

\* json.loads(entry.decode('utf-8'))
Deserialize(ser) ==
    [next_tool |-> ser.next_tool, tool_params |-> ser.tool_params,
     analysis_steps |-> [i \in 1..Len(ser.analysis_steps) |->
                            LoadStep(ser.analysis_steps[i])]]

\* DBCache.get with the expiry comparison inverted.
LiveRowsInverted(rows, key, t) == {e \in rows : e.key = key /\ e.expiry < t}

\* DBCache.get that still serves a row at the instant of its expiry.
LiveRowsInclusive(rows, key, t) == {e \in rows : e.key = key /\ e.expiry >= t}

\* Rows DBCache.get selects: the key matches and the row has not expired.
LiveRows(rows, key, t) == {e \in rows : e.key = key /\ e.expiry > t}

\* DBCache.get: the deserialized value in a set, or {} on a miss.
CacheGet(rows, key, t) == {Deserialize(e.value) : e \in LiveRows(rows, key, t)}

\* DBCache.set with ON CONFLICT (key) DO NOTHING: the first writer wins.
CacheSetKeepFirst(rows, key, value, t, ttl) ==
    IF \E e \in rows : e.key = key
        THEN rows
        ELSE rows \cup {[key |-> key, value |-> Serialize(value),
                         expiry |-> t + ttl]}

\* DBCache.set as a plain INSERT into a table without the primary key.
CacheSetInsertOnly(rows, key, value, t, ttl) ==
    rows \cup {[key |-> key, value |-> Serialize(value), expiry |-> t + ttl]}

\* DBCache.set: INSERT ... ON CONFLICT (key) DO UPDATE SET value, expiry.
CacheSet(rows, key, value, t, ttl) ==
    {e \in rows : e.key # key}
        \cup {[key |-> key, value |-> Serialize(value), expiry |-> t + ttl]}

\* DBCache.delete: DELETE FROM cache_entries WHERE key = :key.
CacheDelete(rows, key) == {e \in rows : e.key # key}

\* cleanup_expired selecting the rows that have not expired.
ExpiredRowsInverted(rows, t) == {e \in rows : e.expiry > t}

\* Rows DBCache.cleanup_expired deletes: WHERE expiry < :now.
ExpiredRows(rows, t) == {e \in rows : e.expiry < t}

\* A plan lookup that ignores settings.ENABLE_CACHE.
PlanLookupAlways(flag, rows, key, t) == CacheGet(rows, key, t)

\* analyze_data's lookup: cache.get(cache_key) if settings.ENABLE_CACHE,
\* no lookup otherwise.
PlanLookup(flag, rows, key, t) == IF flag THEN CacheGet(rows, key, t) ELSE {}

\* A store whose key also hashes the number of steps planned so far.
PlanStoreKeyedByProgress(flag, rows, key, plan, t) ==
    IF flag
        THEN CacheSet(rows,
                      [key EXCEPT !.text_hash =
                           <<key.text_hash, Len(plan.analysis_steps)>>],
                      plan, t, SEARCH_CACHE_TTL)
        ELSE rows

\* analyze_data's store: cache.set(cache_key, cache_data) with the default
\* ttl if settings.ENABLE_CACHE, no store otherwise.
PlanStore(flag, rows, key, plan, t) ==
    IF flag THEN CacheSet(rows, key, plan, t, SEARCH_CACHE_TTL) ELSE rows

\* A planning step appended already final.
NewStepFinal(response) == [analysis |-> response, is_final |-> TRUE]

\* The step analyze_data appends: the raw LLM response, not final.
NewStep(response) == [analysis |-> response, is_final |-> FALSE]

\* A plan an earlier run of the same agent on the same input left behind.
EarlierPlan ==
    [next_tool |-> "sentiment_analysis", tool_params |-> PlannedParams("llm"),
     analysis_steps |-> <<NewStep({"check", "sentiment"})>>]

\* ------------------------------------------------------------ the workflow
\* build_workflow with tool_execution also looping back to itself.
SuccToolLoops(n) ==
    CASE n = "preprocess"     -> {"analyze"}
      [] n = "analyze"        -> {"tool_execution", "postprocess"}
      [] n = "tool_execution" -> {"analyze", "tool_execution"}
      [] OTHER                -> {}

\* Edges of build_workflow; postprocess leads to END.
Succ(n) ==
    CASE n = "preprocess"     -> {"analyze"}
      [] n = "analyze"        -> {"tool_execution", "postprocess"}
      [] n = "tool_execution" -> {"analyze"}
      [] OTHER                -> {}

\* Bookkeeping of the graph runner when node n of run r finishes: the node's
\* successors are triggered; when the superstep is over the triggered nodes
\* become active, the run returns if there are none, and it raises once the
\* recursion limit is reached.
Finish(r, n) ==
    LET act == active[r] \ {n}
        trg == triggered[r] \cup Succ(n)
    IN  IF act # {}
            THEN /\ active' = [active EXCEPT ![r] = act]
                 /\ triggered' = [triggered EXCEPT ![r] = trg]
                 /\ UNCHANGED <<superstep, status>>
        ELSE IF trg = {}
            THEN /\ active' = [active EXCEPT ![r] = {}]
                 /\ triggered' = [triggered EXCEPT ![r] = {}]
                 /\ status' = [status EXCEPT ![r] = "returned"]
                 /\ UNCHANGED superstep
        ELSE IF superstep[r] >= RecursionLimit
            THEN /\ active' = [active EXCEPT ![r] = {}]
                 /\ triggered' = [triggered EXCEPT ![r] = {}]
                 /\ status' = [status EXCEPT ![r] = "raised"]
                 /\ UNCHANGED superstep
        ELSE /\ active' = [active EXCEPT ![r] = trg]
             /\ triggered' = [triggered EXCEPT ![r] = {}]
             /\ superstep' = [superstep EXCEPT ![r] = @ + 1]
             /\ UNCHANGED status

Ready(r, n) == status[r] = "running" /\ n \in active[r]

\* A node invocation starts.
Start(r, n) ==
    /\ Ready(r, n)
    /\ nodeRuns < MaxNodeRuns
    /\ nodeRuns' = nodeRuns + 1

\* ------------------------------------------------- clients of the cache
\* Keys and values the cache service is exercised with on its own.
CacheKeys == {CacheKey(t, c) : t \in Texts, c \in AgentConfigs}

CachedPlans == {EarlierPlan, [EarlierPlan EXCEPT !.next_tool = "llm_router"]}

\* ttl arguments of set, in seconds; a call without ttl uses default_ttl.
Ttls == {0, 1, SEARCH_CACHE_TTL}

\* Concurrent cleanup tasks.
Cleaners == {"c1", "c2"}

\* No cache operation has completed yet.
NoOp ==
    [op |-> "none", key |-> CacheKey("", NoConfig), value |-> EarlierPlan,
     ttl |-> 0, at |-> 0, ok |-> TRUE, result |-> {}, prior |-> {}]

IdleCleaner == [pc |-> "idle", at |-> 0, ok |-> TRUE, count |-> 0]

NoCacheClients ==
    /\ lastOp = NoOp
    /\ cleaner = [w \in Cleaners |-> IdleCleaner]

\* ----------------------------------------------------- parameter extraction
\* Values of parameter dictionaries, tagged with their Python type.
StrVal(v) == [type |-> "str", val |-> v]
IntVal(v) == [type |-> "int", val |-> v]
ListVal(v) == [type |-> "list", val |-> v]

\* A field of a pydantic schema; default is used when the field is optional.
Field(name, type, required, default) ==
    [name |-> name, type |-> type, required |-> required, default |-> default]

\* schemas/tool_inputs.py, and TestSchema of tests/test_param_extractor.py.
DocumentSearchInput ==
    [name |-> "DocumentSearchInput",
     fields |-> {Field("query", "str", TRUE, StrVal(""))}]

GenerateInsightInput ==
    [name |-> "GenerateInsightInput",
     fields |-> {Field("text", "str", TRUE, StrVal("")),
                 Field("approach", "str", FALSE, StrVal("thematic"))}]

SummarizeMemoryInput ==
    [name |-> "SummarizeMemoryInput",
     fields |-> {Field("memories", "list", TRUE, ListVal(""))}]

TestSchema ==
    [name |-> "TestSchema",
     fields |-> {Field("required_field", "str", TRUE, StrVal("")),
                 Field("numeric_field", "int", TRUE, IntVal(""))}]

\* Dictionaries are sets of <<key, value>> pairs with distinct keys.
Has(d, k) == \E p \in d : p[1] = k
Value(d, k) == (CHOOSE p \in d : p[1] = k)[2]

\* {**b, **a}: the left operand wins.
MergeLeftWins(a, b) == a \cup {p \in b : ~Has(a, p[1])}

\* {**a, **b}
Merge(a, b) == {p \in a : ~Has(b, p[1])} \cup b

\* The text the parameters are extracted from (the planning response) and
\* the slices of it the rule-based step takes.
SourceText == "response"
First5000 == "response[:5000]"
FirstSentence == "response.split('.')[0][:100]"

\* The slices of the combined input text get_default_params takes.
DefaultText == "combined_text[:5000]"
DefaultQuery == "combined_text.split('\\n')[0][:100]"

\* The calls of extract_with_fallback explored: schema and default_values as
\* analyze_data passes them for document_search, generate_insight and
\* summarize_memory (get_default_params), and as the test passes them.
SchemaAndDefaults ==
    {<<DocumentSearchInput, {<<"query", StrVal(DefaultQuery)>>}>>,
     <<GenerateInsightInput, {<<"text", StrVal(DefaultText)>>,
                              <<"approach", StrVal("thematic")>>}>>,
     <<SummarizeMemoryInput, {<<"text", StrVal(DefaultText)>>}>>,
     <<TestSchema, {<<"required_field", StrVal("default")>>,
                    <<"numeric_field", IntVal("42")>>}>>}

\* settings.PARAM_EXTRACTION_PROVIDER and whether REPLICATE_API_TOKEN is set.
ProviderSettings == {"openai", "mixtral"}

ExtractCalls ==
    {[schema |-> sd[1], default_values |-> sd[2], provider |-> p, token |-> t] :
        sd \in SchemaAndDefaults, p \in ProviderSettings, t \in BOOLEAN}

\* Messages of validation errors, and the message of any other exception.
ValidationMessages == {"field required", "not valid JSON"}
OtherMessage == "request failed"

NoLoop == [provider |-> "<none>", stage |-> "<none>", pass |-> 0,
           attempt |-> 0, feedback |-> <<>>]

NoOutcome == [params |-> {}, succeeded |-> FALSE]

\* schema(**d) succeeds: every field given has its type (no coercion is
\* modelled), every field not given is optional; other keys are ignored.
Validates(schema, d) ==
    \A f \in schema.fields :
        IF Has(d, f.name) THEN Value(d, f.name).type = f.type ELSE ~f.required

\* The object schema(**d): the schema's fields, from d or from their defaults.
Construct(schema, d) ==
    {<<f.name, IF Has(d, f.name) THEN Value(d, f.name) ELSE f.default>> :
        f \in schema.fields}

\* The object of an LLM output that validates against the schema.
LLMObject(schema) ==
    {<<f.name, [type |-> f.type, val |-> "extracted"]>> : f \in schema.fields}

\* _extract_simple_params
ExtractSimpleParams(text, defaults) ==
    (IF Has(defaults, "text") /\ Value(defaults, "text").type = "str"
        THEN {<<"text", StrVal(First5000)>>} ELSE {})
    \cup
    (IF Has(defaults, "query") /\ Value(defaults, "query").type = "str"
        THEN {<<"query", StrVal(FirstSentence)>>} ELSE {})

\* A fallback that reports itself as a successful extraction.
FallbackReturnAsExtracted(schema, d) ==
    [params |-> Construct(schema, d), succeeded |-> TRUE]

\* return schema(**d), False
FallbackReturn(schema, d) ==
    [params |-> Construct(schema, d), succeeded |-> FALSE]

\* An extract that ignores PARAM_EXTRACTION_PROVIDER.
PrimaryProviderOpenAI(c) == "openai"

\* The provider extract tries first.
PrimaryProvider(c) ==
    IF c.provider = "mixtral" /\ c.token THEN "replicate" ELSE "openai"

\* What one LLM attempt can yield: an object that validates, a validation
\* error (output that is not JSON or does not fit the schema), or any other
\* exception (network, HTTP status, output parser).
AttemptOutcomes ==
    {[kind |-> "valid", message |-> NoError]}
    \cup {[kind |-> "invalid", message |-> m] : m \in ValidationMessages}
    \cup {[kind |-> "error", message |-> OtherMessage]}

\* A retry that keeps the feedback of the first failure only.
FeedbackStale(provider, feedback, message) ==
    IF feedback = <<>> THEN <<message>> ELSE feedback

\* The error feedback the next attempt's input carries: _extract_openai
\* appends it to the text it has built up, _extract_replicate appends
\* last_error to the source text.
Feedback(provider, feedback, message) ==
    IF provider = "openai" THEN Append(feedback, message) ELSE <<message>>

\* The attempt's exception is handled inside the retry loop: _extract_openai
\* catches ValidationError only, _extract_replicate every exception.
CaughtInLoop(provider, kind) == provider = "replicate" \/ kind = "invalid"

FirstAttempt(provider, stage, pass) ==
    [provider |-> provider, stage |-> stage, pass |-> pass, attempt |-> 0,
     feedback |-> <<>>]

\* No extract_with_fallback call is under way.
NoExtraction ==
    /\ call = CHOOSE c \in ExtractCalls : TRUE
    /\ extractPc = "idle"
    /\ loop = NoLoop
    /\ attempts = <<>>
    /\ extracted = NoOutcome

\* ---------------------------------------------------- theme consolidation
ThemeNames == {"cost", "trust"}
QuoteLists == {<<>>, <<"q1">>, <<"q2">>}
KeywordLists == {<<>>, <<"k1", "k1">>, <<"k2">>}

\* A theme as extract_themes_from_results builds it from an insight or a
\* cluster (the description plays no part in the consolidation).
Themes == [name : ThemeNames, quotes : QuoteLists, keywords : KeywordLists]

ThemeLists == UNION {[1..n -> Themes] : n \in 0..MaxThemes}

Elements(list) == {list[i] : i \in 1..Len(list)}

\* list(a_set): the elements once each, in some order.
ListOfSet(S) ==
    CHOOSE list \in [1..Cardinality(S) -> S] : Elements(list) = S

\* existing_theme after a later theme of the same name was merged into it.
MergeInto(existing_theme, theme) ==
    [name     |-> existing_theme.name,
     quotes   |-> IF theme.quotes # <<>>
                      THEN existing_theme.quotes \o theme.quotes
                      ELSE existing_theme.quotes,
     keywords |-> IF theme.keywords # <<>>
                      THEN ListOfSet(Elements(existing_theme.keywords)
                                       \cup Elements(theme.keywords))
                      ELSE existing_theme.keywords]

\* The loop over themes of extract_themes_from_results; theme_map is the
\* dict's values in insertion order.
RECURSIVE ConsolidateFrom(_, _)
ConsolidateFrom(theme_map, rest) ==
    IF rest = <<>> THEN theme_map
    ELSE LET theme == Head(rest)
             at == {i \in 1..Len(theme_map) : theme_map[i].name = theme.name}
         IN  IF at = {}
                 THEN ConsolidateFrom(Append(theme_map, theme), Tail(rest))
                 ELSE LET i == CHOOSE j \in at : TRUE
                      IN  ConsolidateFrom(
                              [theme_map EXCEPT
                                  ![i] = MergeInto(theme_map[i], theme)],
                              Tail(rest))

\* data_processor.extract_themes_from_results, from the built themes on
extract_themes_from_results(list) == ConsolidateFrom(<<>>, list)

\* The loop of AnalysisOrchestrator._extract_themes_from_results: the first
\* theme of a name is kept as it is, later ones are dropped; its themes
\* carry no keywords.
RECURSIVE UniqueFrom(_, _)
UniqueFrom(unique_themes, rest) ==
    IF rest = <<>> THEN unique_themes
    ELSE LET theme == Head(rest)
         IN  IF theme.name # ""
                    /\ \A i \in 1..Len(unique_themes) :
                           unique_themes[i].name # theme.name
                 THEN UniqueFrom(Append(unique_themes,
                                        [theme EXCEPT !.keywords = <<>>]),
                                 Tail(rest))
                 ELSE UniqueFrom(unique_themes, Tail(rest))

OrchestratorExtractThemes(list) == UniqueFrom(<<>>, list)

ThemeImplementations == {"data_processor", "orchestrator"}

NotMerged == [i \in ThemeImplementations |-> <<>>]

NoThemes ==
    /\ themes = <<>>
    /\ themesPc = "built"
    /\ merged = NotMerged

\* ------------------------------------------------------------ text items
\* A metadata dict is a set of <<key, value>> pairs with one value per key.
SuppliedMetadata == SUBSET {<<"document_id", "d7">>, <<"filename", "f7.txt">>}

\* An element of "interviews" or "documents": a dict with or without a
\* "metadata" key.  An element of "texts" is a bare string (no metadata);
\* for the shape "text" the one item stands for the top-level "text" and
\* "metadata" keys of the input.
Items == [text : {"hello"}, has_metadata : {TRUE}, metadata : SuppliedMetadata]
             \cup [text : {"hello"}, has_metadata : {FALSE}, metadata : {{}}]

BareItems == {it \in Items : ~it.has_metadata}

ItemLists(S) == UNION {[1..n -> S] : n \in 0..MaxItems}

InputShapes == {"interviews", "texts", "documents", "text"}

InputData ==
    [shape : {"interviews", "documents"}, items : ItemLists(Items)]
        \cup [shape : {"texts"}, items : ItemLists(BareItems)]
        \cup [shape : {"text"}, items : [1..1 -> Items]]

HasKey(metadata, key) == \E kv \in metadata : kv[1] = key

\* f"{prefix}-{i}"
Fmt(prefix, i) == prefix \o "-" \o ToString(i)

\* The body of the loop "for i, item in enumerate(text_data)".
EnsureMetadata(i, item) ==
    LET metadata == IF item.has_metadata THEN item.metadata ELSE {}
    IN  [text         |-> item.text,
         has_metadata |-> TRUE,
         metadata     |->
             metadata
                 \cup (IF HasKey(metadata, "document_id") THEN {}
                       ELSE {<<"document_id", Fmt("doc", i)>>})
                 \cup (IF HasKey(metadata, "filename") THEN {}
                       ELSE {<<"filename", Fmt("document", i)>>})]

\* The list text_data before the loop (data_processor).
CollectTextData(data) ==
    IF data.shape \in {"interviews", "documents"} THEN data.items
    ELSE IF data.shape = "texts"
        THEN [k \in 1..Len(data.items) |->
                 [text         |-> data.items[k].text,
                  has_metadata |-> TRUE,
                  metadata     |-> {<<"document_id", Fmt("text", k - 1)>>,
                                    <<"filename", Fmt("text", k - 1)>>}]]
    ELSE [k \in 1..1 |->
             [text         |-> data.items[1].text,
              has_metadata |-> TRUE,
              metadata     |-> IF data.items[1].has_metadata
                                   THEN data.items[1].metadata
                                   ELSE {<<"document_id", "main-text">>,
                                         <<"filename", "main-text">>}]]

\* data_processor.extract_text_data
extract_text_data(data) ==
    LET collected == CollectTextData(data)
    IN  [k \in 1..Len(collected) |-> EnsureMetadata(k - 1, collected[k])]

\* AnalysisOrchestrator._extract_text_data
OrchestratorExtractTextData(data) ==
    IF data.shape \in {"interviews", "documents"} THEN data.items
    ELSE [k \in 1..Len(data.items) |->
             [text         |-> data.items[k].text,
              has_metadata |-> TRUE,
              metadata     |-> {}]]

TextImplementations == {"data_processor", "orchestrator"}

NoTextData == [i \in TextImplementations |-> <<>>]

NoInputData == [shape |-> "texts", items |-> <<>>]

NoPreprocess ==
    /\ input_data = NoInputData
    /\ preprocessed = FALSE
    /\ text_data = NoTextData

\* ------------------------------------------------------- the analysis job
JobStatuses == {"pending", "in_progress", "completed", "failed"}
Terminal == {"completed", "failed"}

NoReport == "none"
Reports == {"report"}
NoJobError == ""
AgentNotFound == "Agent not found"
AnalysisFailed == "Analysis failed: error"

\* The row create_analysis inserts (status default "pending", results and
\* error NULL).
NewJob == [status |-> "pending", results |-> NoReport, error |-> NoJobError]

\* update_analysis_status(analysis_id, status, results=..., error=...): the
\* row with the status set and the results or the error set when given.
update_analysis_status(row, new_status, results, error) ==
    [status  |-> new_status,
     results |-> IF results # NoReport THEN results ELSE row.results,
     error   |-> IF error # NoJobError THEN error ELSE row.error]

NoJob ==
    /\ job = NewJob
    /\ runPc = "queued"
    /\ raised = "none"
    /\ caught = {}
    /\ agentExists = TRUE
    /\ streamPc = "idle"
    /\ elapsed = 0
    /\ disconnected = FALSE
    /\ streamEvent = "none"

\* ------------------------------------------------------- memory tagging
Memories == {"m1", "m2", "m3"}
NoTag == ""
\* Two of the tags tag_memory may return.
Tags == {"emotion", "idea"}

\* The body of the loop over the rows a query returned: the tag column of
\* one row after it, given tag_memories and what tag_memory returns.
TagOfRow(row_tag, tag_memories, tag) ==
    IF row_tag # NoTag /\ ~tag_memories THEN row_tag
    ELSE IF tag_memories THEN tag
    ELSE row_tag

\* The rows that are sent to tag_memory.
Classified(rows, tags, tag_memories) ==
    {m \in rows : ~(tags[m] # NoTag /\ ~tag_memories) /\ tag_memories}

NoMemories ==
    /\ memoryTag = [m \in Memories |-> NoTag]
    /\ tagged = [m \in Memories |-> 0]

\* ------------------------------------------------------ quote sources
\* document_ids TextItems may carry after preprocess.
DocumentIds == {"text-0", "text-1", "d7"}

\* What may follow "document:" in a planning response.
DocumentHints == {"text-0", "d9"}

\* Python's None as a document_id.
NoneId == "None"
UnknownId == "unknown"

\* No document_metadata argument.
NoMetadata == [given |-> FALSE, document_id |-> NoneId]

\* tool_manager.extract_document_metadata: a dict whose document_id is None
\* unless the response has a "document:" line.
extract_document_metadata(hint) == [given |-> TRUE, document_id |-> hint]

\* The document_metadata generate_insight is called with: none on the
\* extractor's path (GenerateInsightInput and the default params have no
\* such field), the dict of extract_document_metadata on the rule-based one.
InsightMetadata(path, hint) ==
    IF path = "rule_based" THEN extract_document_metadata(hint) ELSE NoMetadata

\* generate_insight: source_info["document_id"] of every insight.
SourceDocumentId(document_metadata) ==
    IF document_metadata.given THEN document_metadata.document_id
    ELSE UnknownId

NoSources ==
    /\ documentIds = {}
    /\ insightParams = NoMetadata
    /\ insightSources = {}
    /\ reportSources = {}
    /\ sourcePc = "plan"

\* ------------------------------------------------------ document search
StoredDocs == {"d1", "d2"}
\* Similarities and thresholds in hundredths.
Similarities == {20, 50, 80}
MinScores == {0, 50, 70}

\* One search: the threshold asked for, each stored document's similarity
\* to the query, the documents the full-text match finds, and which of the
\* three mechanisms work (the embedding call, the pgvector query, the
\* full-text query).
SearchInputs ==
    [min_score  : MinScores,
     similarity : [StoredDocs -> Similarities],
     matches    : SUBSET StoredDocs,
     embedOk    : BOOLEAN,
     vectorOk   : BOOLEAN,
     fallbackOk : BOOLEAN]

Raised == [raised |-> TRUE, documents |-> {}]
Returned(documents) == [raised |-> FALSE, documents |-> documents]

\* The rows of the pgvector query: similarity >= min_score.
VectorRows(in) ==
    {[id |-> d, score |-> in.similarity[d]] :
        d \in {x \in StoredDocs : in.similarity[x] >= in.min_score}}

\* The rows of the full-text query, each given the fallback score.
FallbackRows(in) == {[id |-> d, score |-> FallbackScore] : d \in in.matches}

\* VectorStore.similarity_search (LIMIT and OFFSET take a part of the rows
\* and are left out).
similarity_search(in) ==
    IF ~in.embedOk THEN Raised
    ELSE IF in.vectorOk THEN Returned(VectorRows(in))
    ELSE IF in.fallbackOk THEN Returned(FallbackRows(in))
    ELSE Returned({})

\* document_search: the store's documents, or no documents and an error
\* when an exception reached it.
document_search(in) ==
    LET results == similarity_search(in)
    IN  IF results.raised THEN [documents |-> {}, error |-> TRUE]
        ELSE [documents |-> results.documents, error |-> FALSE]

NoSearchInput ==
    [min_score |-> 0, similarity |-> [d \in StoredDocs |-> 20], matches |-> {},
     embedOk |-> TRUE, vectorOk |-> TRUE, fallbackOk |-> TRUE]

NoSearch ==
    /\ searchInput = NoSearchInput
    /\ searched = FALSE
    /\ storeResult = Returned({})
    /\ toolResult = [documents |-> {}, error |-> FALSE]

\* ----------------------------------------------------- memory summary
\* A text is a sequence of sentences, each with its number of words and the
\* character that ends it.
Sentences == {[words |-> 10, end |-> "."], [words |-> 40, end |-> "."],
              [words |-> 40, end |-> "?"]}

SummaryTexts == UNION {[1..n -> Sentences] : n \in 0..MaxSentences}

\* What the LLM may answer when asked for a shorter version.
ShorterTexts ==
    {<<[words |-> 40, end |-> "."]>>,
     [i \in 1..4 |-> [words |-> 40, end |-> "."]]}

\* "Failed to generate summary due to an error."
FailureSummary == <<[words |-> 8, end |-> "."]>>

\* len(text.split())
RECURSIVE WordCount(_)
WordCount(text) ==
    IF text = <<>> THEN 0 ELSE Head(text).words + WordCount(Tail(text))

\* The positions of the sentences that end with a period.
Periods(text) == {i \in 1..Len(text) : text[i].end = "."}

\* '.'.join(text.split('.')[:n]) + '.': the text up to its n-th period; a
\* text with fewer periods whole, with one more period (a sentence of no
\* words) at its end.
JoinFirst(text, n) ==
    IF Cardinality(Periods(text)) >= n
        THEN LET last == CHOOSE i \in Periods(text) :
                             Cardinality({j \in Periods(text) : j <= i}) = n
             IN  SubSeq(text, 1, last)
        ELSE Append(text, [words |-> 0, end |-> "."])

\* The truncation with one piece too many.
TruncateSix(memory_summary) ==
    IF WordCount(memory_summary) > SummaryWordLimit
        THEN JoinFirst(memory_summary, SummarySentences + 1)
        ELSE memory_summary

\* preprocess_data: the summary as it is stored.
Truncate(memory_summary) ==
    IF WordCount(memory_summary) > SummaryWordLimit
        THEN JoinFirst(memory_summary, SummarySentences)
        ELSE memory_summary

\* summarize_memory: it raises, or returns a dict with a "summary".
summarize_memory(env) ==
    IF env.outcome = "raises" THEN [raised |-> TRUE, summary |-> <<>>]
    ELSE IF env.outcome = "llm_fails"
        THEN [raised |-> FALSE, summary |-> FailureSummary]
    ELSE IF WordCount(env.summary) > ToolWordLimit
        THEN [raised |-> FALSE, summary |-> env.shorter]
    ELSE [raised |-> FALSE, summary |-> env.summary]

NoSummary == <<>>

\* The state preprocess_data returns.
preprocess_data(memories, env) ==
    LET summary_result == summarize_memory(env)
        stored == memories > 1 /\ ~summary_result.raised
    IN  [has_summary     |-> stored,
         context_summary |-> IF stored THEN Truncate(summary_result.summary)
                             ELSE NoSummary,
         analysis_steps  |-> <<>>,
         tool_results    |-> <<>>]

Summarizers ==
    [outcome : {"raises", "llm_fails"}, summary : {<<>>},
     shorter : {<<[words |-> 40, end |-> "."]>>}]
        \cup [outcome : {"ok"}, summary : SummaryTexts, shorter : ShorterTexts]

NotPrepared ==
    [has_summary |-> FALSE, context_summary |-> NoSummary,
     analysis_steps |-> <<>>, tool_results |-> <<>>]

NoSummarizing ==
    /\ contextMemories = 0
    /\ summarizer = [outcome |-> "raises", summary |-> <<>>,
                     shorter |-> <<[words |-> 40, end |-> "."]>>]
    /\ preprocessedPc = FALSE
    /\ prepared = NotPrepared

\* ------------------------------------------- planning with a failing cache
PlanKey == CacheKey("interview", NoConfig)

\* The cache table before the call: empty, a live row for the key, or a row
\* for the key that expired at time 0.
PlanRows ==
    {{},
     {[key |-> PlanKey, value |-> Serialize(EarlierPlan),
       expiry |-> SEARCH_CACHE_TTL]},
     {[key |-> PlanKey, value |-> Serialize(EarlierPlan), expiry |-> 0]}}

\* analysis_steps on entry: none, one that is not final, one that is final.
PlanSteps ==
    {<<>>, <<NewStep({"check", "sentiment"})>>,
     <<NewStepFinal({"check", "sentiment"})>>}

\* One call: the flag, the table, the steps and tool of the state, whether
\* the statements of get and set succeed, and what the LLM and the
\* extractor answer.
PlanInputs ==
    [flag : BOOLEAN, rows : PlanRows, analysis_steps : PlanSteps,
     getOk : BOOLEAN, setOk : BOOLEAN, response : Responses,
     extraction : {"llm", "fallback"}]

\* DBCache.get without its try/except: a failing statement raises.
DBCacheGetUnguarded(rows, key, t, ok) ==
    [raised |-> ~ok, value |-> IF ok THEN CacheGet(rows, key, t) ELSE {}]

\* DBCache.get: the value, or None (a miss) when the statement fails.
DBCacheGet(rows, key, t, ok) ==
    [raised |-> FALSE, value |-> IF ok THEN CacheGet(rows, key, t) ELSE {}]

\* DBCache.set: the upsert committed and True, or the rollback and False.
DBCacheSet(rows, key, value, t, ok) ==
    [raised |-> FALSE,
     stored |-> ok,
     rows   |-> IF ok THEN CacheSet(rows, key, value, t, SEARCH_CACHE_TTL)
                ELSE rows]

\* An early-return test that never holds.
EarlyReturnNever(analysis_steps) == FALSE

\* if analysis_steps and analysis_steps[-1].get("is_final", False)
EarlyReturn(analysis_steps) ==
    analysis_steps # <<>> /\ analysis_steps[Len(analysis_steps)].is_final

\* What a call leaves when it touches nothing.
Untouched(in) ==
    [raised |-> FALSE, analysis_complete |-> FALSE, cache_hit |-> FALSE,
     cache_reads |-> 0, cache_writes |-> 0, llm_calls |-> 0, stored |-> FALSE,
     rows |-> in.rows, analysis_steps |-> in.analysis_steps,
     next_tool |-> NoTool, tool_params |-> NoParams]

\* state_handler.analyze_data, one call from entry to return.
analyze_data(in, t) ==
    IF EarlyReturn(in.analysis_steps)
        THEN [Untouched(in) EXCEPT !.analysis_complete = TRUE]
    ELSE
        LET got    == IF in.flag THEN DBCacheGet(in.rows, PlanKey, t, in.getOk)
                      ELSE [raised |-> FALSE, value |-> {}]
            reads  == IF in.flag THEN 1 ELSE 0
            tool   == extract_tool_from_response(in.response)
            plan   == [next_tool      |-> tool,
                       tool_params    |-> PlannedParams(in.extraction),
                       analysis_steps |-> Append(in.analysis_steps,
                                                 NewStep(in.response))]
            set    == IF in.flag
                          THEN DBCacheSet(in.rows, PlanKey, plan, t, in.setOk)
                          ELSE [raised |-> FALSE, stored |-> FALSE,
                                rows |-> in.rows]
        IN  IF got.raised
                THEN [Untouched(in) EXCEPT !.raised = TRUE, !.cache_reads = reads]
            ELSE IF got.value # {}
                THEN LET cached == CHOOSE v \in got.value : TRUE
                     IN  [Untouched(in) EXCEPT
                             !.cache_hit = TRUE, !.cache_reads = reads,
                             !.analysis_steps = cached.analysis_steps,
                             !.next_tool = cached.next_tool,
                             !.tool_params = cached.tool_params]
            ELSE [Untouched(in) EXCEPT
                     !.raised = set.raised, !.cache_reads = reads,
                     !.cache_writes = IF in.flag THEN 1 ELSE 0,
                     !.llm_calls = 1, !.stored = set.stored, !.rows = set.rows,
                     !.analysis_steps = plan.analysis_steps,
                     !.next_tool = plan.next_tool,
                     !.tool_params = plan.tool_params]

NoPlanInput ==
    [flag |-> TRUE, rows |-> {}, analysis_steps |-> <<>>, getOk |-> TRUE,
     setOk |-> TRUE, response |-> {"use", "search"}, extraction |-> "llm"]

NoPlanning ==
    /\ planIn = NoPlanInput
    /\ planPc = FALSE
    /\ planOut = Untouched(NoPlanInput)

\* ------------------------------------------- polling a Replicate prediction
\* The statuses of a prediction: two while it runs, three when it is over.
PendingStatuses == {"starting", "processing"}
FinishedStatuses == {"succeeded", "failed", "canceled"}

\* What the provider reports over time: at most MaxPending times a pending
\* status, then the status the prediction finished with, from then on.
Predictions ==
    {Append(pending, finished) :
        pending \in UNION {[1..n -> PendingStatuses] : n \in 0..MaxPending},
        finished \in FinishedStatuses}

\* The requests the model tells apart: more than any prediction needs to
\* finish, so that the count wraps only in a loop that goes on after that.
MaxPolls == MaxPending + 1 + MaxExtraPolls

\* if prediction_status["status"] == "succeeded": break; elif "failed": raise
PollStep(reported) ==
    IF reported = "succeeded" THEN "succeeded"
    ELSE IF reported = "failed" THEN "raised"
    ELSE "polling"

NoPolling ==
    /\ prediction = <<"succeeded">>
    /\ pollPc = "idle"
    /\ polls = 0

\* ------------------------------------------------- grouping of memories
\* Similarities in hundredths, and the tags a memory may carry after the
\* tagging loop: one of tag_memory's, or none.
GroupScores == {50, 70, 90}
MemoryTags == {"emotion", "other", NoTag}

\* A memory as the loop over the rows builds it.
Memory(id, tag, score) ==
    [id |-> <<id>>, tag |-> tag, score |-> score, is_summary |-> FALSE,
     group_size |-> 0, source_ids |-> <<>>]

\* The rows of the table that pass the filters, nearest first.
MemoryRows ==
    UNION {{[i \in 1..n |-> Memory(i, tags[i], scores[i])] :
              tags \in [1..n -> MemoryTags],
              scores \in {f \in [1..n -> GroupScores] :
                             \A i \in 1..(n - 1) : f[i] >= f[i + 1]}} :
           n \in 0..MaxRows}

FetchInputs == [rows : MemoryRows, k : 1..MaxRows, group_similar : BOOLEAN]

\* ORDER BY embedding <=> :query_embedding LIMIT :k
LimitK(rows, k) == SubSeq(rows, 1, IF Len(rows) < k THEN Len(rows) ELSE k)

\* memory.get("tag", "other")
GroupKey(memory) == IF memory.tag = NoTag THEN "other" ELSE memory.tag

\* The keys of grouped_memories in the order of their insertion.
RECURSIVE GroupKeys(_)
GroupKeys(memories) ==
    IF memories = <<>> THEN <<>>
    ELSE LET rest == GroupKeys(SubSeq(memories, 1, Len(memories) - 1))
             key  == GroupKey(Last(memories))
         IN  IF \E i \in 1..Len(rest) : rest[i] = key THEN rest
             ELSE Append(rest, key)

\* grouped_memories[tag]
Group(memories, tag) ==
    LET InGroup(m) == GroupKey(m) = tag
    IN  SelectSeq(memories, InGroup)

\* The lowest score of a group.
LowestScore(group) ==
    CHOOSE x \in {group[i].score : i \in 1..Len(group)} :
        \A i \in 1..Len(group) : x <= group[i].score

\* max(mem["score"] for mem in group)
MaxScore(group) ==
    CHOOSE x \in {group[i].score : i \in 1..Len(group)} :
        \A i \in 1..Len(group) : x >= group[i].score

\* The record appended for one group when summarized_memories holds n
\* records.
GroupRecord(group, tag, n) ==
    IF Len(group) > 1
        THEN [id |-> <<"group", tag, n>>, tag |-> tag,
              score |-> MaxScore(group), is_summary |-> TRUE,
              group_size |-> Len(group),
              source_ids |-> [i \in 1..Len(group) |-> group[i].id]]
        ELSE group[1]

\* summarized_memories after the loop over grouped_memories.items().
RECURSIVE Summarized(_, _)
Summarized(memories, keys) ==
    IF keys = <<>> THEN <<>>
    ELSE LET before == Summarized(memories, SubSeq(keys, 1, Len(keys) - 1))
         IN  Append(before, GroupRecord(Group(memories, Last(keys)),
                                        Last(keys), Len(before)))

\* list.sort(key=score, reverse=True): stable, the highest score first.
RECURSIVE SortByScore(_)
SortByScore(records) ==
    IF records = <<>> THEN <<>>
    ELSE LET sorted == SortByScore(SubSeq(records, 1, Len(records) - 1))
             x      == Last(records)
             ahead  == {i \in 1..Len(sorted) : sorted[i].score >= x.score}
             n      == Cardinality(ahead)
         IN  SubSeq(sorted, 1, n) \o <<x>> \o SubSeq(sorted, n + 1, Len(sorted))

\* fetch_memories from the list of memories on.
fetch_memories(in) ==
    LET memories == LimitK(in.rows, in.k)
    IN  IF in.group_similar /\ memories # <<>>
            THEN LimitK(SortByScore(Summarized(memories, GroupKeys(memories))),
                        in.k)
            ELSE memories

NoFetchInput == [rows |-> <<>>, k |-> 1, group_similar |-> FALSE]

NoFetching ==
    /\ fetchIn = NoFetchInput
    /\ fetchPc = FALSE
    /\ fetched = <<>>

\* Every component but the named one is at rest.
OthersIdle(component) ==
    /\ component # "infer" => NoInference
    /\ component # "themes" => NoThemes
    /\ component # "text" => NoPreprocess
    /\ component # "job" => NoJob
    /\ component # "memory" => NoMemories
    /\ component # "source" => NoSources
    /\ component # "search" => NoSearch
    /\ component # "summary" => NoSummarizing
    /\ component # "plan" => NoPlanning
    /\ component # "poll" => NoPolling
    /\ component # "fetch" => NoFetching

\* Every component but the named one keeps its variables.
OthersUnchanged(component) ==
    /\ component # "infer" => UNCHANGED inferVars
    /\ component # "themes" => UNCHANGED themeVars
    /\ component # "text" => UNCHANGED textVars
    /\ component # "job" => UNCHANGED <<jobVars, streamVars, disconnected>>
    /\ component # "memory" => UNCHANGED memoryVars
    /\ component # "source" => UNCHANGED sourceVars
    /\ component # "search" => UNCHANGED searchVars
    /\ component # "summary" => UNCHANGED summaryVars
    /\ component # "plan" => UNCHANGED planVars
    /\ component # "poll" => UNCHANGED pollVars
    /\ component # "fetch" => UNCHANGED fetchVars

\* No component is exercised on its own.
NoComponents == OthersIdle("none")

\* The workflow, the cache clients and the extractor are at rest.
IdleWorkflow ==
    /\ enableCache = TRUE
    /\ now = 0
    /\ ticks = 0
    /\ nodeRuns = 0
    /\ cache = {}
    /\ input \in [Runs -> Texts]
    /\ cfg = [r \in Runs |-> NoConfig]
    /\ active = [r \in Runs |-> {"preprocess"}]
    /\ triggered = [r \in Runs |-> {}]
    /\ superstep = [r \in Runs |-> 1]
    /\ status = [r \in Runs |-> "running"]
    /\ planning = [r \in Runs |-> FALSE]
    /\ steps = [r \in Runs |-> <<>>]
    /\ tool_results = [r \in Runs |-> <<>>]
    /\ next_tool = [r \in Runs |-> NoTool]
    /\ tool_params = [r \in Runs |-> NoParams]
    /\ analysis_complete = [r \in Runs |-> FALSE]
    /\ tool_error = [r \in Runs |-> NoError]
    /\ cache_hit = [r \in Runs |-> FALSE]
    /\ final_results = [r \in Runs |-> {}]
    /\ event = [r \in Runs |-> "start"]
    /\ plannedSince = [r \in Runs |-> FALSE]
    /\ llmCalls = [r \in Runs |-> 0]
    /\ extractCalls = [r \in Runs |-> 0]
    /\ NoCacheClients
    /\ NoExtraction

\* The variables no component specification changes.
workflowVars == <<enableCache, now, ticks, nodeRuns, cache, runVars,
                  cacheOpVars, extractVars>>

\* ------------------------------------------------------------------- Init
Init ==
    /\ enableCache \in BOOLEAN
    /\ now = 0
    /\ ticks = 0
    /\ nodeRuns = 0
    /\ cache = {}
    /\ input \in [Runs -> Texts]
    /\ \E c \in AgentConfigs : cfg = [r \in Runs |-> c]
    /\ active = [r \in Runs |-> {"preprocess"}]
    /\ triggered = [r \in Runs |-> {}]
    /\ superstep = [r \in Runs |-> 1]
    /\ status = [r \in Runs |-> "running"]
    /\ planning = [r \in Runs |-> FALSE]
    /\ steps = [r \in Runs |-> <<>>]
    /\ tool_results = [r \in Runs |-> <<>>]
    /\ next_tool = [r \in Runs |-> NoTool]
    /\ tool_params = [r \in Runs |-> NoParams]
    /\ analysis_complete = [r \in Runs |-> FALSE]
    /\ tool_error = [r \in Runs |-> NoError]
    /\ cache_hit = [r \in Runs |-> FALSE]
    /\ final_results = [r \in Runs |-> {}]
    /\ event = [r \in Runs |-> "start"]
    /\ plannedSince = [r \in Runs |-> FALSE]
    /\ llmCalls = [r \in Runs |-> 0]
    /\ extractCalls = [r \in Runs |-> 0]
    /\ NoCacheClients
    /\ NoComponents
    /\ NoExtraction

\* ---------------------------------------------------------------- actions
\* preprocess_data: intermediate_results is rebuilt with empty
\* analysis_steps and tool_results.
Preprocess(r) ==
    /\ Start(r, "preprocess")
    /\ steps' = [steps EXCEPT ![r] = <<>>]
    /\ tool_results' = [tool_results EXCEPT ![r] = <<>>]
    /\ next_tool' = [next_tool EXCEPT ![r] = NoTool]
    /\ tool_params' = [tool_params EXCEPT ![r] = NoParams]
    /\ analysis_complete' = [analysis_complete EXCEPT ![r] = FALSE]
    /\ tool_error' = [tool_error EXCEPT ![r] = NoError]
    /\ cache_hit' = [cache_hit EXCEPT ![r] = FALSE]
    /\ event' = [event EXCEPT ![r] = "preprocess"]
    /\ Finish(r, "preprocess")
    /\ UNCHANGED <<sharedVars, input, cfg, planning, final_results,
                   plannedSince, llmCalls, extractCalls>>
    /\ UNCHANGED <<cacheOpVars, extractVars, componentVars>>

\* analyze_data up to its first suspension: the early return on a final last
\* step, the cache lookup, and the adoption of a cached plan.
AnalyzeEnter(r) ==
    /\ Start(r, "analyze")
    /\ ~planning[r]
    /\ LET key == CacheKey(input[r], cfg[r])
           hit == PlanLookup(enableCache, cache, key, now)
       IN  IF steps[r] # <<>> /\ Last(steps[r]).is_final
               THEN /\ analysis_complete' = [analysis_complete EXCEPT ![r] = TRUE]
                    /\ event' = [event EXCEPT ![r] = "plan_final"]
                    /\ plannedSince' = [plannedSince EXCEPT ![r] = TRUE]
                    /\ Finish(r, "analyze")
                    /\ UNCHANGED <<steps, next_tool, tool_params, cache_hit,
                                   planning>>
           ELSE IF hit # {}
               THEN /\ \E plan \in hit :
                        /\ steps' = [steps EXCEPT ![r] = plan.analysis_steps]
                        /\ next_tool' = [next_tool EXCEPT ![r] = plan.next_tool]
                        /\ tool_params' = [tool_params EXCEPT ![r] = plan.tool_params]
                    /\ cache_hit' = [cache_hit EXCEPT ![r] = TRUE]
                    /\ event' = [event EXCEPT ![r] = "plan_hit"]
                    /\ plannedSince' = [plannedSince EXCEPT ![r] = TRUE]
                    /\ Finish(r, "analyze")
                    /\ UNCHANGED <<analysis_complete, planning>>
           ELSE /\ planning' = [planning EXCEPT ![r] = TRUE]
                /\ event' = [event EXCEPT ![r] = "plan_miss"]
                /\ UNCHANGED <<steps, next_tool, tool_params, cache_hit,
                               analysis_complete, plannedSince, active,
                               triggered, superstep, status>>
    /\ UNCHANGED <<sharedVars, input, cfg, tool_results, tool_error,
                   final_results, llmCalls, extractCalls>>
    /\ UNCHANGED <<cacheOpVars, extractVars, componentVars>>

\* analyze_data from the LLM call on: the response is appended as a
\* non-final step, the tool is inferred, the parameters are extracted and
\* the plan is written to the cache.
AnalyzeLLM(r) ==
    /\ Ready(r, "analyze")
    /\ planning[r]
    /\ \E response \in Responses :
         LET tool == extract_tool_from_response(response)
             newSteps == Append(steps[r], NewStep(response))
         IN  \E outcome \in ExtractOutcomes(tool) :
               LET params == PlannedParams(outcome)
                   plan == [next_tool |-> tool, tool_params |-> params,
                            analysis_steps |-> newSteps]
               IN  /\ steps' = [steps EXCEPT ![r] = newSteps]
                   /\ next_tool' = [next_tool EXCEPT ![r] = tool]
                   /\ tool_params' = [tool_params EXCEPT ![r] = params]
                   /\ cache' = PlanStore(enableCache, cache,
                                         CacheKey(input[r], cfg[r]), plan, now)
    /\ planning' = [planning EXCEPT ![r] = FALSE]
    /\ llmCalls' = [llmCalls EXCEPT ![r] = @ + 1]
    /\ extractCalls' = [extractCalls EXCEPT ![r] = @ + 1]
    /\ event' = [event EXCEPT ![r] = "plan_llm"]
    /\ plannedSince' = [plannedSince EXCEPT ![r] = TRUE]
    /\ Finish(r, "analyze")
    /\ UNCHANGED <<enableCache, now, ticks, nodeRuns, input, cfg, tool_results,
                   analysis_complete, tool_error, cache_hit, final_results>>
    /\ UNCHANGED <<cacheOpVars, extractVars, componentVars>>

\* The cap test with > in place of >=.
ReachedCapStrict(count, c) == count > MaxToolCalls(c)

\* len(tool_results) >= max_tool_calls
ReachedCap(count, c) == count >= MaxToolCalls(c)

\* analysis_steps[-1]["is_final"] = True, when there is a step.
MarkFinal(s) ==
    IF s = <<>> THEN s ELSE [s EXCEPT ![Len(s)].is_final = TRUE]

\* The ToolInvocation execute_tools appends.
ToolInvocation(tool, params, result) ==
    [tool |-> tool, params |-> params, result |-> result]

\* execute_tools, the path of a tool that returned: the invocation is
\* appended and the last step is marked final once the cap is reached.
ToolSucceeded(r, result) ==
    LET results == Append(tool_results[r],
                          ToolInvocation(next_tool[r], tool_params[r], result))
    IN  /\ tool_results' = [tool_results EXCEPT ![r] = results]
        /\ steps' = [steps EXCEPT ![r] =
                        IF ReachedCap(Len(results), cfg[r])
                            THEN MarkFinal(@) ELSE @]
        /\ event' = [event EXCEPT ![r] = "tool_ok"]
        /\ UNCHANGED <<tool_error, analysis_complete>>

\* An except branch that also records the failed invocation.
ToolFailedRecorded(r, message, ev) ==
    /\ tool_error' = [tool_error EXCEPT ![r] = message]
    /\ analysis_complete' = [analysis_complete EXCEPT ![r] = TRUE]
    /\ event' = [event EXCEPT ![r] = ev]
    /\ tool_results' = [tool_results EXCEPT ![r] =
           Append(@, ToolInvocation(next_tool[r], tool_params[r], message))]
    /\ UNCHANGED steps

\* execute_tools, the except branch: the error is recorded and completion
\* is requested; steps and tool_results are returned as they were.
ToolFailed(r, message, ev) ==
    /\ tool_error' = [tool_error EXCEPT ![r] = message]
    /\ analysis_complete' = [analysis_complete EXCEPT ![r] = TRUE]
    /\ event' = [event EXCEPT ![r] = ev]
    /\ UNCHANGED <<steps, tool_results>>

\* execute_tools.
ExecuteTools(r) ==
    /\ Start(r, "tool_execution")
    /\ IF next_tool[r] = NoTool
           THEN /\ analysis_complete' = [analysis_complete EXCEPT ![r] = TRUE]
                /\ event' = [event EXCEPT ![r] = "tool_absent"]
                /\ UNCHANGED <<steps, tool_results, tool_error>>
       ELSE IF next_tool[r] \notin ToolMap
           THEN ToolFailed(r, "Unknown tool", "tool_unknown")
       ELSE \E outcome \in ToolOutcomes(next_tool[r]) :
              IF outcome = "raises"
                  THEN ToolFailed(r, "tool raised", "tool_raised")
                  ELSE ToolSucceeded(r, "output")
    /\ plannedSince' = [plannedSince EXCEPT ![r] = FALSE]
    /\ Finish(r, "tool_execution")
    /\ UNCHANGED <<sharedVars, input, cfg, planning, next_tool, tool_params,
                   cache_hit, final_results, llmCalls, extractCalls>>
    /\ UNCHANGED <<cacheOpVars, extractVars, componentVars>>

\* postprocess_results: one LLM synthesis call, then final_results is set.
Postprocess(r) ==
    /\ Start(r, "postprocess")
    /\ \E summary \in Summaries :
         final_results' = [final_results EXCEPT ![r] = {[summary |-> summary]}]
    /\ event' = [event EXCEPT ![r] = "postprocess"]
    /\ Finish(r, "postprocess")
    /\ UNCHANGED <<sharedVars, input, cfg, planning, steps, tool_results,
                   next_tool, tool_params, analysis_complete, tool_error,
                   cache_hit, plannedSince, llmCalls, extractCalls>>
    /\ UNCHANGED <<cacheOpVars, extractVars, componentVars>>

\* Time passes.
Tick ==
    /\ ticks < MaxTicks
    /\ ticks' = ticks + 1
    /\ now' = now + SEARCH_CACHE_TTL
    /\ UNCHANGED <<enableCache, nodeRuns, cache, input, cfg, active, triggered,
                   superstep, status, planning, steps, tool_results,
                   next_tool, tool_params, analysis_complete, tool_error,
                   cache_hit, final_results, event, plannedSince, llmCalls,
                   extractCalls>>
    /\ UNCHANGED <<cacheOpVars, extractVars, componentVars>>

Next ==
    \/ \E r \in Runs : Preprocess(r)
    \/ \E r \in Runs : AnalyzeEnter(r)
    \/ \E r \in Runs : AnalyzeLLM(r)
    \/ \E r \in Runs : ExecuteTools(r)
    \/ \E r \in Runs : Postprocess(r)
    \/ Tick

Spec == Init /\ [][Next]_vars

\* --------------------------------------- execute_tools called on any state
\* execute_tools is a function of the state it is handed; this specification
\* applies it to the states a caller can hand it, among them a next_tool
\* that is absent or not in tool_map.
EntrySteps ==
    LET resp == CHOOSE x \in Responses : TRUE
        st(f) == [analysis |-> resp, is_final |-> f]
    IN  {<<>>, <<st(FALSE)>>, <<st(TRUE)>>,
         <<st(FALSE), st(FALSE)>>, <<st(FALSE), st(TRUE)>>}

EntryResults ==
    LET inv == ToolInvocation("generate_insight", PlannedParams("llm"), "output")
    IN  {<<>>, <<inv>>, <<inv, inv>>}

EntryTools == {NoTool, "bogus_tool", "document_search", "summarize_memory"}

InitExec ==
    /\ enableCache \in BOOLEAN
    /\ now = 0
    /\ ticks = 0
    /\ nodeRuns = 0
    /\ cache = {}
    /\ input \in [Runs -> Texts]
    /\ \E c \in AgentConfigs : cfg = [r \in Runs |-> c]
    /\ active = [r \in Runs |-> {"tool_execution"}]
    /\ triggered = [r \in Runs |-> {}]
    /\ superstep = [r \in Runs |-> 1]
    /\ status = [r \in Runs |-> "running"]
    /\ planning = [r \in Runs |-> FALSE]
    /\ steps \in [Runs -> EntrySteps]
    /\ tool_results \in [Runs -> EntryResults]
    /\ next_tool \in [Runs -> EntryTools]
    /\ tool_params = [r \in Runs |-> PlannedParams("fallback")]
    /\ analysis_complete = [r \in Runs |-> FALSE]
    /\ tool_error = [r \in Runs |-> NoError]
    /\ cache_hit = [r \in Runs |-> FALSE]
    /\ final_results = [r \in Runs |-> {}]
    /\ event = [r \in Runs |-> "start"]
    /\ plannedSince = [r \in Runs |-> TRUE]
    /\ llmCalls = [r \in Runs |-> 0]
    /\ extractCalls = [r \in Runs |-> 0]
    /\ NoCacheClients
    /\ NoComponents
    /\ NoExtraction

NextExec == \E r \in Runs : ExecuteTools(r)

SpecExec == InitExec /\ [][NextExec]_vars

\* ------------------------------------- runs with the cache feature flag off
\* Table cache_entries as earlier processes can have left it: empty, or with
\* a row for the runs' key that is live now and expires at the next clock
\* advance.
LeftoverCaches ==
    {{}} \cup {CacheSet({}, CacheKey(t, c), EarlierPlan, 1 - SEARCH_CACHE_TTL,
                        SEARCH_CACHE_TTL) : t \in Texts, c \in AgentConfigs}

\* settings.ENABLE_CACHE is read from the environment at start-up; here the
\* process starts with the flag off on a table that may hold rows.
InitFlagOff ==
    /\ enableCache = FALSE
    /\ now = 0
    /\ ticks = 0
    /\ nodeRuns = 0
    /\ cache \in LeftoverCaches
    /\ input \in [Runs -> Texts]
    /\ \E c \in AgentConfigs : cfg = [r \in Runs |-> c]
    /\ active = [r \in Runs |-> {"preprocess"}]
    /\ triggered = [r \in Runs |-> {}]
    /\ superstep = [r \in Runs |-> 1]
    /\ status = [r \in Runs |-> "running"]
    /\ planning = [r \in Runs |-> FALSE]
    /\ steps = [r \in Runs |-> <<>>]
    /\ tool_results = [r \in Runs |-> <<>>]
    /\ next_tool = [r \in Runs |-> NoTool]
    /\ tool_params = [r \in Runs |-> NoParams]
    /\ analysis_complete = [r \in Runs |-> FALSE]
    /\ tool_error = [r \in Runs |-> NoError]
    /\ cache_hit = [r \in Runs |-> FALSE]
    /\ final_results = [r \in Runs |-> {}]
    /\ event = [r \in Runs |-> "start"]
    /\ plannedSince = [r \in Runs |-> FALSE]
    /\ llmCalls = [r \in Runs |-> 0]
    /\ extractCalls = [r \in Runs |-> 0]
    /\ NoCacheClients
    /\ NoComponents
    /\ NoExtraction

SpecFlagOff == InitFlagOff /\ [][Next]_vars

\* ---------------------------------------------- the cache service on its own
\* Clients call get, set and delete of the cache service and cleanup tasks
\* run cleanup_expired while time passes.  Each SQL statement is one step;
\* cleanup_expired reads the clock before it awaits its DELETE, so other
\* operations and the clock can come in between.  A statement that fails
\* (ok = FALSE) is rolled back: get then returns None, set and delete False
\* and cleanup_expired 0.
InitCache ==
    /\ enableCache = TRUE
    /\ now = 0
    /\ ticks = 0
    /\ nodeRuns = 0
    /\ cache = {}
    /\ input \in [Runs -> Texts]
    /\ cfg = [r \in Runs |-> NoConfig]
    /\ active = [r \in Runs |-> {"preprocess"}]
    /\ triggered = [r \in Runs |-> {}]
    /\ superstep = [r \in Runs |-> 1]
    /\ status = [r \in Runs |-> "running"]
    /\ planning = [r \in Runs |-> FALSE]
    /\ steps = [r \in Runs |-> <<>>]
    /\ tool_results = [r \in Runs |-> <<>>]
    /\ next_tool = [r \in Runs |-> NoTool]
    /\ tool_params = [r \in Runs |-> NoParams]
    /\ analysis_complete = [r \in Runs |-> FALSE]
    /\ tool_error = [r \in Runs |-> NoError]
    /\ cache_hit = [r \in Runs |-> FALSE]
    /\ final_results = [r \in Runs |-> {}]
    /\ event = [r \in Runs |-> "start"]
    /\ plannedSince = [r \in Runs |-> FALSE]
    /\ llmCalls = [r \in Runs |-> 0]
    /\ extractCalls = [r \in Runs |-> 0]
    /\ NoCacheClients
    /\ NoComponents
    /\ NoExtraction

\* cache.get(key)
Get ==
    /\ \E key \in CacheKeys, ok \in BOOLEAN :
         lastOp' = [NoOp EXCEPT !.op = "get", !.key = key, !.at = now,
                                !.ok = ok,
                                !.result = IF ok THEN CacheGet(cache, key, now)
                                                 ELSE {}]
    /\ UNCHANGED <<enableCache, now, ticks, nodeRuns, cache, cleaner, runVars,
                   extractVars, componentVars>>

\* cache.set(key, value, ttl)
Set ==
    /\ \E key \in CacheKeys, value \in CachedPlans, ttl \in Ttls,
          ok \in BOOLEAN :
         /\ cache' = IF ok THEN CacheSet(cache, key, value, now, ttl) ELSE cache
         /\ lastOp' = [NoOp EXCEPT !.op = "set", !.key = key, !.value = value,
                                   !.ttl = ttl, !.at = now, !.ok = ok,
                                   !.prior = {e \in cache : e.key = key}]
    /\ UNCHANGED <<enableCache, now, ticks, nodeRuns, cleaner, runVars,
                   extractVars, componentVars>>

\* cache.delete(key)
Delete ==
    /\ \E key \in CacheKeys, ok \in BOOLEAN :
         /\ cache' = IF ok THEN CacheDelete(cache, key) ELSE cache
         /\ lastOp' = [NoOp EXCEPT !.op = "delete", !.key = key, !.at = now,
                                   !.ok = ok,
                                   !.prior = {e \in cache : e.key = key}]
    /\ UNCHANGED <<enableCache, now, ticks, nodeRuns, cleaner, runVars,
                   extractVars, componentVars>>

\* cleanup_expired run by one task without interruption.
CleanupExpired ==
    /\ \E ok \in BOOLEAN :
         LET gone == IF ok THEN ExpiredRows(cache, now) ELSE {}
         IN  /\ cache' = cache \ gone
             /\ lastOp' = [NoOp EXCEPT !.op = "cleanup", !.at = now, !.ok = ok,
                                       !.prior = gone]
    /\ UNCHANGED <<enableCache, now, ticks, nodeRuns, cleaner, runVars,
                   extractVars, componentVars>>

\* A second passes.
Elapse ==
    /\ ticks < MaxCacheTicks
    /\ ticks' = ticks + 1
    /\ now' = now + 1
    /\ UNCHANGED <<enableCache, nodeRuns, cache, cacheOpVars, runVars,
                   extractVars, componentVars>>

NextCache ==
    \/ Get
    \/ Set
    \/ Delete
    \/ CleanupExpired
    \/ Elapse

SpecCache == InitCache /\ [][NextCache]_vars

\* ------------------------------------------------- concurrent cleanup tasks
\* Two tasks run cleanup_expired while clients store and delete plans and
\* time passes.  cleanup_expired reads the clock before it awaits its
\* DELETE, so the other task, the clients and the clock can come in between.
\* cleanup_expired up to its await: now = time.time().
CleanupBegin(w) ==
    /\ cleaner[w].pc # "deleting"
    /\ cleaner' = [cleaner EXCEPT ![w] =
                      [pc |-> "deleting", at |-> now, ok |-> TRUE, count |-> 0]]
    /\ UNCHANGED <<enableCache, now, ticks, nodeRuns, cache, lastOp, runVars,
                   extractVars, componentVars>>

\* cleanup_expired from its DELETE on: the rows deleted are counted and the
\* count is returned; a failed statement is rolled back and 0 is returned.
CleanupDelete(w) ==
    /\ cleaner[w].pc = "deleting"
    /\ \E ok \in BOOLEAN :
         LET gone == IF ok THEN ExpiredRows(cache, cleaner[w].at) ELSE {}
         IN  /\ cache' = cache \ gone
             /\ cleaner' = [cleaner EXCEPT ![w] =
                               [pc |-> "done", at |-> cleaner[w].at, ok |-> ok,
                                count |-> Cardinality(gone)]]
    /\ UNCHANGED <<enableCache, now, ticks, nodeRuns, lastOp, runVars,
                   extractVars, componentVars>>

\* Some client's cache.set commits.
Store ==
    /\ \E key \in CacheKeys, ttl \in Ttls :
         cache' = CacheSet(cache, key, EarlierPlan, now, ttl)
    /\ UNCHANGED <<enableCache, now, ticks, nodeRuns, cacheOpVars, runVars,
                   extractVars, componentVars>>

\* Some client's cache.delete commits.
Remove ==
    /\ \E key \in CacheKeys : cache' = CacheDelete(cache, key)
    /\ UNCHANGED <<enableCache, now, ticks, nodeRuns, cacheOpVars, runVars,
                   extractVars, componentVars>>

NextCleanup ==
    \/ \E w \in Cleaners : CleanupBegin(w)
    \/ \E w \in Cleaners : CleanupDelete(w)
    \/ Store
    \/ Remove
    \/ Elapse

SpecCleanup == InitCache /\ [][NextCleanup]_vars

\* ------------------------------------------ ParamExtractor on its own
\* One call of extract_with_fallback.  Each LLM attempt is one step; what
\* the model answers and whether the request fails is the environment's
\* choice.
InitExtract ==
    /\ enableCache = TRUE
    /\ now = 0
    /\ ticks = 0
    /\ nodeRuns = 0
    /\ cache = {}
    /\ input \in [Runs -> Texts]
    /\ cfg = [r \in Runs |-> NoConfig]
    /\ active = [r \in Runs |-> {"preprocess"}]
    /\ triggered = [r \in Runs |-> {}]
    /\ superstep = [r \in Runs |-> 1]
    /\ status = [r \in Runs |-> "running"]
    /\ planning = [r \in Runs |-> FALSE]
    /\ steps = [r \in Runs |-> <<>>]
    /\ tool_results = [r \in Runs |-> <<>>]
    /\ next_tool = [r \in Runs |-> NoTool]
    /\ tool_params = [r \in Runs |-> NoParams]
    /\ analysis_complete = [r \in Runs |-> FALSE]
    /\ tool_error = [r \in Runs |-> NoError]
    /\ cache_hit = [r \in Runs |-> FALSE]
    /\ final_results = [r \in Runs |-> {}]
    /\ event = [r \in Runs |-> "start"]
    /\ plannedSince = [r \in Runs |-> FALSE]
    /\ llmCalls = [r \in Runs |-> 0]
    /\ extractCalls = [r \in Runs |-> 0]
    /\ NoCacheClients
    /\ NoComponents
    /\ call \in ExtractCalls
    /\ extractPc = "called"
    /\ loop = NoLoop
    /\ attempts = <<>>
    /\ extracted = NoOutcome

\* extract_with_fallback calls extract, which enters the retry loop of the
\* primary provider.
ExtractBegin ==
    /\ extractPc = "called"
    /\ extractPc' = "loop"
    /\ loop' = FirstAttempt(PrimaryProvider(call), "primary", 1)
    /\ UNCHANGED <<call, attempts, extracted>>
    /\ UNCHANGED <<enableCache, now, ticks, nodeRuns, cache, cacheOpVars,
                   runVars, componentVars>>

\* One iteration of a provider's retry loop, with what follows it: return
\* on a valid object; the next iteration with feedback; or, when the
\* function raises, tenacity's second call of _extract_replicate, extract's
\* fallback to _extract_openai, or extract_with_fallback's except branch.
Attempt ==
    /\ extractPc = "loop"
    /\ \E out \in AttemptOutcomes :
         /\ attempts' = Append(attempts,
                [provider |-> loop.provider, stage |-> loop.stage,
                 pass |-> loop.pass, attempt |-> loop.attempt,
                 input |-> loop.feedback, outcome |-> out.kind,
                 message |-> out.message])
         /\ IF out.kind = "valid"
                THEN /\ extractPc' = "returned"
                     /\ extracted' = [params |-> Construct(call.schema,
                                                    LLMObject(call.schema)),
                                      succeeded |-> TRUE]
                     /\ UNCHANGED loop
            ELSE IF CaughtInLoop(loop.provider, out.kind)
                    /\ loop.attempt < DefaultMaxRetries
                THEN /\ loop' = [loop EXCEPT
                                   !.attempt = @ + 1,
                                   !.feedback = Feedback(loop.provider, @,
                                                         out.message)]
                     /\ UNCHANGED <<extractPc, extracted>>
            ELSE IF loop.provider = "replicate" /\ loop.pass < TenacityAttempts
                THEN /\ loop' = FirstAttempt("replicate", loop.stage,
                                             loop.pass + 1)
                     /\ UNCHANGED <<extractPc, extracted>>
            ELSE IF loop.stage = "primary"
                THEN /\ loop' = FirstAttempt("openai", "fallback", 1)
                     /\ UNCHANGED <<extractPc, extracted>>
            ELSE /\ extractPc' = "rule_based"
                 /\ UNCHANGED <<loop, extracted>>
    /\ UNCHANGED call
    /\ UNCHANGED <<enableCache, now, ticks, nodeRuns, cache, cacheOpVars,
                   runVars, componentVars>>

\* The except branch of extract_with_fallback: rule-based parameters merged
\* over the defaults, then the defaults alone; schema(**default_values) is
\* not guarded, so its ValidationError reaches the caller.
RuleBased ==
    /\ extractPc = "rule_based"
    /\ LET simple_params == ExtractSimpleParams(SourceText, call.default_values)
           merged_params == Merge(call.default_values, simple_params)
       IN  IF Validates(call.schema, merged_params)
               THEN /\ extracted' = FallbackReturn(call.schema, merged_params)
                    /\ extractPc' = "returned"
           ELSE IF Validates(call.schema, call.default_values)
               THEN /\ extracted' = FallbackReturn(call.schema,
                                                   call.default_values)
                    /\ extractPc' = "returned"
           ELSE /\ extractPc' = "raised"
                /\ UNCHANGED extracted
    /\ UNCHANGED <<call, loop, attempts>>
    /\ UNCHANGED <<enableCache, now, ticks, nodeRuns, cache, cacheOpVars,
                   runVars, componentVars>>

NextExtract ==
    \/ ExtractBegin
    \/ Attempt
    \/ RuleBased

SpecExtract == InitExtract /\ [][NextExtract]_vars

\* ------------------------------------------------ tool-name inference
\* Both implementations of the inference applied to a response text.
InitInfer ==
    /\ IdleWorkflow
    /\ response_text \in SUBSET Vocabulary
    /\ inferred = NotInferred
    /\ OthersIdle("infer")

Infer ==
    /\ inferred = NotInferred
    /\ inferred' = [i \in Implementations |->
                       IF i = "tool_manager"
                           THEN extract_tool_from_response(response_text)
                           ELSE OrchestratorExtractTool(response_text)]
    /\ UNCHANGED <<workflowVars, response_text>>
    /\ OthersUnchanged("infer")

NextInfer == Infer

SpecInfer == InitInfer /\ [][NextInfer]_vars

\* ------------------------------------------------ theme consolidation
\* Both implementations of the consolidation applied to a list of themes.
InitThemes ==
    /\ IdleWorkflow
    /\ themes \in ThemeLists
    /\ themesPc = "built"
    /\ merged = NotMerged
    /\ OthersIdle("themes")

Consolidate ==
    /\ themesPc = "built"
    /\ themesPc' = "consolidated"
    /\ merged' = [i \in ThemeImplementations |->
                     IF i = "data_processor"
                         THEN extract_themes_from_results(themes)
                         ELSE OrchestratorExtractThemes(themes)]
    /\ UNCHANGED <<workflowVars, themes>>
    /\ OthersUnchanged("themes")

NextThemes == Consolidate

SpecThemes == InitThemes /\ [][NextThemes]_vars

\* ---------------------------------------------------------- text items
\* Both implementations of the text extraction of preprocess applied to an
\* input of one of the four shapes.
InitText ==
    /\ IdleWorkflow
    /\ input_data \in InputData
    /\ preprocessed = FALSE
    /\ text_data = NoTextData
    /\ OthersIdle("text")

ExtractText ==
    /\ ~preprocessed
    /\ preprocessed' = TRUE
    /\ text_data' = [i \in TextImplementations |->
                        IF i = "data_processor"
                            THEN extract_text_data(input_data)
                            ELSE OrchestratorExtractTextData(input_data)]
    /\ UNCHANGED <<workflowVars, input_data>>
    /\ OthersUnchanged("text")

NextText == ExtractText

SpecText == InitText /\ [][NextText]_vars

\* ------------------------------------------------------ the analysis job
\* One submitted job: run_analysis as the background task, one client of
\* the status stream, and the client's connection.
InitJob ==
    /\ IdleWorkflow
    /\ job = NewJob
    /\ runPc = "queued"
    /\ raised = "none"
    /\ caught = {}
    /\ agentExists \in BOOLEAN
    /\ streamPc = "idle"
    /\ elapsed = 0
    /\ disconnected = FALSE
    /\ streamEvent = "none"
    /\ OthersIdle("job")

RunFrame ==
    /\ UNCHANGED <<workflowVars, agentExists, streamVars, disconnected>>
    /\ OthersUnchanged("job")

\* run_analysis starts: the status becomes in_progress.
RunBegin ==
    /\ runPc = "queued"
    /\ job' = update_analysis_status(job, "in_progress", NoReport, NoJobError)
    /\ runPc' = "lookup"
    /\ UNCHANGED raised
    /\ UNCHANGED caught
    /\ RunFrame

\* The agent is looked up: found, not found (failed, return), or the query
\* raises.
RunLookup ==
    /\ runPc = "lookup"
    /\ \/ /\ agentExists
          /\ runPc' = "context"
          /\ UNCHANGED <<job, raised>>
       \/ /\ ~agentExists
          /\ job' = update_analysis_status(job, "failed", NoReport, AgentNotFound)
          /\ runPc' = "done"
          /\ UNCHANGED raised
       \/ /\ runPc' = "except"
          /\ raised' = "lookup"
          /\ UNCHANGED job
    /\ UNCHANGED caught
    /\ RunFrame

\* get_recent_memories: its result or its exception (caught and printed)
\* does not touch the job.
RunContext ==
    /\ runPc = "context"
    /\ \E ok \in BOOLEAN :
           caught' = IF ok THEN caught ELSE caught \cup {"context"}
    /\ runPc' = "orchestrate"
    /\ UNCHANGED <<job, raised>>
    /\ RunFrame

\* orchestrator.run_analysis(data) returns the final report or raises.
RunOrchestrate ==
    /\ runPc = "orchestrate"
    /\ \/ /\ runPc' = "memories"
          /\ UNCHANGED raised
       \/ /\ runPc' = "except"
          /\ raised' = "orchestration"
    /\ UNCHANGED job
    /\ UNCHANGED caught
    /\ RunFrame

\* Storing the memories outside any try block of its own: add_memory's
\* exception reaches the except clause of run_analysis.
RunStoreMemoriesUnguarded ==
    /\ runPc = "memories"
    /\ \E ok \in BOOLEAN :
           IF ok THEN /\ runPc' = "complete"
                      /\ UNCHANGED <<raised, caught>>
                 ELSE /\ runPc' = "except"
                      /\ raised' = "memories"
                      /\ caught' = caught \cup {"store"}
    /\ UNCHANGED job
    /\ RunFrame

\* The themes and the summary are stored as memories; an exception there
\* (add_memory rolls back and re-raises) is caught and printed.
RunStoreMemories ==
    /\ runPc = "memories"
    /\ \E ok \in BOOLEAN :
           caught' = IF ok THEN caught ELSE caught \cup {"store"}
    /\ runPc' = "complete"
    /\ UNCHANGED <<job, raised>>
    /\ RunFrame

\* The except branch that forgets to record the failure.
RunExceptSwallow ==
    /\ runPc = "except"
    /\ runPc' = "done"
    /\ UNCHANGED <<job, raised>>
    /\ UNCHANGED caught
    /\ RunFrame

\* except Exception: the status becomes failed with the error message.
RunExcept ==
    /\ runPc = "except"
    /\ job' = update_analysis_status(job, "failed", NoReport, AnalysisFailed)
    /\ runPc' = "done"
    /\ UNCHANGED raised
    /\ UNCHANGED caught
    /\ RunFrame

\* The status becomes completed together with the results.
RunComplete ==
    /\ runPc = "complete"
    /\ \E results \in Reports :
           job' = update_analysis_status(job, "completed", results, NoJobError)
    /\ runPc' = "done"
    /\ UNCHANGED raised
    /\ UNCHANGED caught
    /\ RunFrame

RunStep ==
    \/ RunBegin
    \/ RunLookup
    \/ RunContext
    \/ RunOrchestrate
    \/ RunStoreMemories
    \/ RunComplete
    \/ RunExcept

StreamFrame ==
    /\ UNCHANGED <<workflowVars, jobVars, disconnected>>
    /\ OthersUnchanged("job")

\* event_generator starts: the analysis is read and its status yielded.
StreamOpen ==
    /\ streamPc = "idle"
    /\ streamPc' = "loop"
    /\ streamEvent' = "status"
    /\ UNCHANGED elapsed
    /\ StreamFrame

\* The loop finds the client gone: break.
StreamDisconnected ==
    /\ streamPc = "loop"
    /\ elapsed < timeout
    /\ disconnected
    /\ streamPc' = "closed"
    /\ UNCHANGED <<elapsed, streamEvent>>
    /\ StreamFrame

\* The loop reads a completed or failed analysis: status, result, done.
StreamFinal ==
    /\ streamPc = "loop"
    /\ elapsed < timeout
    /\ ~disconnected
    /\ job.status \in Terminal
    /\ streamPc' = "closed"
    /\ streamEvent' = "done"
    /\ UNCHANGED elapsed
    /\ StreamFrame

\* The loop reads an unfinished analysis: status, sleep.
StreamProgress ==
    /\ streamPc = "loop"
    /\ elapsed < timeout
    /\ ~disconnected
    /\ job.status \notin Terminal
    /\ streamEvent' = "status"
    /\ elapsed' = elapsed + poll_interval
    /\ UNCHANGED streamPc
    /\ StreamFrame

\* A timeout that gives the job up as failed.
StreamTimeoutFailsJob ==
    /\ streamPc = "loop"
    /\ elapsed >= timeout
    /\ streamPc' = "closed"
    /\ streamEvent' = "error"
    /\ job' = update_analysis_status(job, "failed", NoReport, "Analysis stream timeout")
    /\ UNCHANGED <<workflowVars, runPc, raised, caught, agentExists, elapsed,
                   disconnected>>
    /\ OthersUnchanged("job")

\* The loop ends with elapsed >= timeout: the error event.
StreamTimeout ==
    /\ streamPc = "loop"
    /\ elapsed >= timeout
    /\ streamPc' = "closed"
    /\ streamEvent' = "error"
    /\ UNCHANGED elapsed
    /\ StreamFrame

\* The client of the stream goes away.
ClientDisconnect ==
    /\ streamPc # "closed"
    /\ ~disconnected
    /\ disconnected' = TRUE
    /\ UNCHANGED <<workflowVars, jobVars, streamVars>>
    /\ OthersUnchanged("job")

NextJob ==
    \/ RunBegin
    \/ RunLookup
    \/ RunContext
    \/ RunOrchestrate
    \/ RunStoreMemories
    \/ RunComplete
    \/ RunExcept
    \/ StreamOpen
    \/ StreamDisconnected
    \/ StreamFinal
    \/ StreamProgress
    \/ StreamTimeout
    \/ ClientDisconnect

SpecJob == InitJob /\ [][NextJob]_vars

\* The event loop runs the background task whenever it can take a step.
SpecJobFair == SpecJob /\ WF_vars(RunStep)

\* ------------------------------------------------------ memory tagging
\* Memory rows, some tagged when they were added, read by fetch_memories and
\* get_recent_memories.
InitMemory ==
    /\ IdleWorkflow
    /\ memoryTag \in [Memories -> {NoTag} \cup Tags]
    /\ tagged = [m \in Memories |-> 0]
    /\ OthersIdle("memory")

\* The loop over the rows of one query, each row with the tag tag_memory
\* returns for it.
ReadRows(rows, tag_memories, tag) ==
    /\ \A m \in Classified(rows, memoryTag, tag_memories) :
           tagged[m] < MaxTaggings
    /\ memoryTag' = [m \in Memories |->
                        IF m \in rows
                            THEN TagOfRow(memoryTag[m], tag_memories, tag[m])
                            ELSE memoryTag[m]]
    /\ tagged' = [m \in Memories |->
                     IF m \in Classified(rows, memoryTag, tag_memories)
                         THEN tagged[m] + 1 ELSE tagged[m]]
    /\ UNCHANGED workflowVars
    /\ OthersUnchanged("memory")

\* fetch_memories(query, ..., tag_memories)
FetchMemories ==
    \E rows \in SUBSET Memories \ {{}} : \E tag_memories \in BOOLEAN :
        \E tag \in [Memories -> Tags] :
            ReadRows(rows, tag_memories, tag)

\* get_recent_memories(..., tag_memories)
GetRecentMemories ==
    \E rows \in SUBSET Memories \ {{}} : \E tag_memories \in BOOLEAN :
        \E tag \in [Memories -> Tags] :
            ReadRows(rows, tag_memories, tag)

NextMemory ==
    \/ FetchMemories
    \/ GetRecentMemories

SpecMemory == InitMemory /\ [][NextMemory]_vars

\* ------------------------------------------------------- quote sources
\* One run from its preprocessed TextItems to the quotes of its report,
\* through calls of generate_insight.
InitSource ==
    /\ IdleWorkflow
    /\ documentIds \in SUBSET DocumentIds \ {{}}
    /\ insightParams = NoMetadata
    /\ insightSources = {}
    /\ reportSources = {}
    /\ sourcePc = "plan"
    /\ OthersIdle("source")

\* The planning step chooses generate_insight and its parameters.
PlanInsight ==
    /\ sourcePc = "plan"
    /\ \E path \in {"extractor", "rule_based"} :
       \E hint \in DocumentHints \cup {NoneId} :
           insightParams' = InsightMetadata(path, hint)
    /\ sourcePc' = "execute"
    /\ UNCHANGED <<workflowVars, documentIds, insightSources, reportSources>>
    /\ OthersUnchanged("source")

\* generate_insight runs; its insights, each with its source, are appended
\* to tool_results.
RunGenerateInsight ==
    /\ sourcePc = "execute"
    /\ insightSources' = insightSources \cup {SourceDocumentId(insightParams)}
    /\ sourcePc' = "plan"
    /\ UNCHANGED <<workflowVars, documentIds, insightParams, reportSources>>
    /\ OthersUnchanged("source")

\* postprocess: the themes' quotes carry the sources of the insights.
ReportQuotes ==
    /\ sourcePc = "plan"
    /\ reportSources' = insightSources
    /\ sourcePc' = "reported"
    /\ UNCHANGED <<workflowVars, documentIds, insightParams, insightSources>>
    /\ OthersUnchanged("source")

NextSource ==
    \/ PlanInsight
    \/ RunGenerateInsight
    \/ ReportQuotes

SpecSource == InitSource /\ [][NextSource]_vars

\* ------------------------------------------------------ document search
InitSearch ==
    /\ IdleWorkflow
    /\ searchInput \in SearchInputs
    /\ searched = FALSE
    /\ storeResult = Returned({})
    /\ toolResult = [documents |-> {}, error |-> FALSE]
    /\ OthersIdle("search")

\* One call of the document_search tool.
DocumentSearch ==
    /\ ~searched
    /\ searched' = TRUE
    /\ storeResult' = similarity_search(searchInput)
    /\ toolResult' = document_search(searchInput)
    /\ UNCHANGED <<workflowVars, searchInput>>
    /\ OthersUnchanged("search")

NextSearch == DocumentSearch

SpecSearch == InitSearch /\ [][NextSearch]_vars

\* ------------------------------------------------------ memory summary
\* preprocess_data on an input whose context carries 0 to 2 memories.
InitSummary ==
    /\ IdleWorkflow
    /\ contextMemories \in 0..2
    /\ summarizer \in Summarizers
    /\ preprocessedPc = FALSE
    /\ prepared = NotPrepared
    /\ OthersIdle("summary")

PreprocessData ==
    /\ ~preprocessedPc
    /\ preprocessedPc' = TRUE
    /\ prepared' = preprocess_data(contextMemories, summarizer)
    /\ UNCHANGED <<workflowVars, contextMemories, summarizer>>
    /\ OthersUnchanged("summary")

NextSummary == PreprocessData

SpecSummary == InitSummary /\ [][NextSummary]_vars

\* ------------------------------------------ planning with a failing cache
\* One call of analyze_data against a cache whose statements may fail.
InitPlan ==
    /\ IdleWorkflow
    /\ planIn \in PlanInputs
    /\ planPc = FALSE
    /\ planOut = Untouched(planIn)
    /\ OthersIdle("plan")

AnalyzeData ==
    /\ ~planPc
    /\ planPc' = TRUE
    /\ planOut' = analyze_data(planIn, now)
    /\ UNCHANGED <<workflowVars, planIn>>
    /\ OthersUnchanged("plan")

NextPlan == AnalyzeData

SpecPlan == InitPlan /\ [][NextPlan]_vars

\* ----------------------------------------- polling a Replicate prediction
\* The while True loop of one attempt of _extract_replicate, from the
\* first GET on.
InitPoll ==
    /\ IdleWorkflow
    /\ prediction \in Predictions
    /\ pollPc = "polling"
    /\ polls = 0
    /\ OthersIdle("poll")

\* One iteration: the GET, raise_for_status, and the test of the status.
Poll ==
    /\ pollPc = "polling"
    /\ polls' = (polls + 1) % MaxPolls
    /\ prediction' = IF Len(prediction) > 1 THEN Tail(prediction) ELSE prediction
    /\ \E ok \in BOOLEAN :
           pollPc' = IF ok THEN PollStep(Head(prediction)) ELSE "raised"
    /\ UNCHANGED workflowVars
    /\ OthersUnchanged("poll")

NextPoll == Poll

SpecPoll == InitPoll /\ [][NextPoll]_vars

\* The loop runs whenever it can: every request is answered.
SpecPollFair == SpecPoll /\ WF_vars(Poll)

\* ------------------------------------------------ grouping of memories
\* One call of fetch_memories on rows already tagged.
InitFetch ==
    /\ IdleWorkflow
    /\ fetchIn \in FetchInputs
    /\ fetchPc = FALSE
    /\ fetched = <<>>
    /\ OthersIdle("fetch")

FetchGrouped ==
    /\ ~fetchPc
    /\ fetchPc' = TRUE
    /\ fetched' = fetch_memories(fetchIn)
    /\ UNCHANGED <<workflowVars, fetchIn>>
    /\ OthersUnchanged("fetch")

NextFetch == FetchGrouped

SpecFetch == InitFetch /\ [][NextFetch]_vars

TypeOK ==
    /\ \A r \in Runs : status[r] \in {"running", "returned", "raised"}
    /\ \A r \in Runs : superstep[r] \in 1..RecursionLimit
    /\ \A r \in Runs : active[r] \subseteq Nodes /\ triggered[r] \subseteq Nodes
    /\ nodeRuns \in 0..MaxNodeRuns

\* ================================================================ properties
\* The step is an invocation of execute_tools by run r.
ToolRan(r) == "tool_execution" \in active[r] /\ "tool_execution" \notin active'[r]

\* The step is run r entering analyze_data.
PlanEntered(r) ==
    "analyze" \in active[r] /\ ~planning[r] /\ event'[r] # event[r]

\* The step is run r resuming analyze_data with the LLM call.
PlanCalledLLM(r) == planning[r] /\ ~planning'[r]

LastIsFinal(s) == s # <<>> /\ Last(s).is_final

\* The cap the claims speak of: the agent's max_tool_calls, 3 when the
\* configuration has none.
ClaimedCap(r) == IF cfg[r] = NoConfig THEN 3 ELSE cfg[r]

\* C1: in any run the number of tool invocations recorded in tool_results
\* never exceeds the run's max_tool_calls (default 3).
C1_ToolCallsWithinBudget ==
    \A r \in Runs : Len(tool_results[r]) <= ClaimedCap(r)

\* C2: every run terminates in Done: a run that has stopped has returned,
\* with postprocess executed and a final report present.
C2_StoppedRunIsDone ==
    \A r \in Runs :
        status[r] # "running" =>
            status[r] = "returned" /\ final_results[r] # {}

\* C3: each successful executeTool increases the number of recorded tool
\* invocations by exactly 1, and afterwards the last step is final when the
\* count equals the agent's max_tool_calls (3 when unconfigured) and is not
\* final when the count is smaller.
C3_CountStepsByOneAndFinalAtCap ==
    [][\A r \in Runs :
         tool_results'[r] # tool_results[r] =>
             LET n == Len(tool_results'[r])
             IN  /\ n = Len(tool_results[r]) + 1
                 /\ steps'[r] # <<>>
                 /\ n < ClaimedCap(r) => ~Last(steps'[r]).is_final
                 /\ n = ClaimedCap(r) => Last(steps'[r]).is_final]_vars

\* C3 witness: an unconfigured run whose third tool invocation has just
\* marked the last step final.
C3_Witness ==
    \E r \in Runs :
        /\ cfg[r] = NoConfig
        /\ event[r] = "tool_ok"
        /\ Len(tool_results[r]) = 3
        /\ LastIsFinal(steps[r])

\* C4: after executeTool has caught an exception of a tool invocation, the
\* run makes no further planning LLM call and executes no further tool.
C4_ToolErrorEndsTheLoop ==
    [][\A r \in Runs :
         tool_error[r] # NoError =>
             /\ ~PlanCalledLLM(r)
             /\ llmCalls'[r] = llmCalls[r]
             /\ ~ToolRan(r)]_vars

\* C5: when executeTool was entered with a tool name that is absent or not
\* in the registry, the last step is final afterwards.
C5_UnknownToolMarksLastStepFinal ==
    \A r \in Runs :
        (event[r] \in {"tool_absent", "tool_unknown"} /\ steps[r] # <<>>)
            => Last(steps[r]).is_final

\* C6: a failed tool execution (unknown tool name, or a tool that raises)
\* leaves steps and tool_results as they were, appends no ToolInvocation,
\* records tool_error on the state and does not raise.
C6_FailedToolKeepsStateAndRecordsError ==
    [][\A r \in Runs :
         (ToolRan(r) /\ event'[r] \in {"tool_unknown", "tool_raised"}) =>
             /\ steps'[r] = steps[r]
             /\ tool_results'[r] = tool_results[r]
             /\ tool_error'[r] # NoError
             /\ status'[r] = "running"]_vars

\* C6 witness: execute_tools has rejected "bogus_tool" on a state that
\* already held two steps and two tool results.
C6_Witness ==
    \E r \in Runs :
        /\ next_tool[r] = "bogus_tool"
        /\ event[r] = "tool_unknown"
        /\ tool_error[r] = "Unknown tool"
        /\ Len(steps[r]) = 2
        /\ Len(tool_results[r]) = 2

\* C7: final_report is absent while steps is empty, and absent while the
\* last step is not final and the tool-call budget is not exhausted.
C7_NoReportBeforeLoopExit ==
    \A r \in Runs :
        /\ steps[r] = <<>> => final_results[r] = {}
        /\ (steps[r] # <<>> /\ ~Last(steps[r]).is_final
               /\ Len(tool_results[r]) < ClaimedCap(r))
              => final_results[r] = {}

\* C8: steps is append-only within a run: every step keeps the earlier
\* steps as a prefix of the new sequence, changing at most is_final of the
\* element that was last.
C8_StepsAppendOnly ==
    [][\A r \in Runs :
         /\ Len(steps[r]) <= Len(steps'[r])
         /\ \A i \in 1..Len(steps[r]) :
              /\ steps'[r][i].analysis = steps[r][i].analysis
              /\ i < Len(steps[r]) =>
                     steps'[r][i].is_final = steps[r][i].is_final]_vars

\* C9: the plan/execute loop alternates: every tool execution of a run is
\* preceded, since the run's previous tool execution, by a plan step; and
\* tool_results changes only by one ToolInvocation appended at its end.
C9_PlanBetweenToolsAndResultsAppendOnly ==
    [][\A r \in Runs :
         /\ ToolRan(r) => plannedSince[r]
         /\ tool_results'[r] # tool_results[r] =>
                /\ Len(tool_results'[r]) = Len(tool_results[r]) + 1
                /\ SubSeq(tool_results'[r], 1, Len(tool_results[r]))
                       = tool_results[r]]_vars

\* C9 witness: a run has executed its second tool.
C9_Witness ==
    \E r \in Runs :
        /\ Len(tool_results[r]) = 2
        /\ event[r] = "tool_ok"
        /\ ~plannedSince[r]

\* C10: plan() that computes its key with caching enabled and finds an
\* unexpired entry for it makes no planning LLM call and no
\* parameter-extraction call, adopts the cached next_tool, tool_params and
\* steps, and marks the state as a cache hit.
C10_CacheHitAdoptsPlanWithoutLLM ==
    [][\A r \in Runs :
         LET fresh == {e \in cache : /\ e.key = CacheKey(input[r], cfg[r])
                                     /\ e.expiry > now}
         IN  (PlanEntered(r) /\ enableCache /\ ~LastIsFinal(steps[r])
                 /\ fresh # {}) =>
                 /\ \E e \in fresh :
                      /\ next_tool'[r] = e.value.next_tool
                      /\ tool_params'[r] = e.value.tool_params
                      /\ Len(steps'[r]) = Len(e.value.analysis_steps)
                      /\ \A i \in 1..Len(steps'[r]) :
                           /\ steps'[r][i].analysis
                                  = e.value.analysis_steps[i].analysis
                           /\ steps'[r][i].is_final
                                  = (e.value.analysis_steps[i].is_final = "true")
                 /\ cache_hit'[r]
                 /\ ~planning'[r]
                 /\ "analyze" \notin active'[r]
                 /\ llmCalls'[r] = llmCalls[r]
                 /\ extractCalls'[r] = extractCalls[r]]_vars

\* C10 witness: a run whose first plan was served from the cache: it holds
\* steps and a tool without having called the LLM.
C10_Witness ==
    \E r \in Runs :
        /\ event[r] = "plan_hit"
        /\ cache_hit[r]
        /\ llmCalls[r] = 0
        /\ steps[r] # <<>>
        /\ next_tool[r] \in ToolMap

\* The row DBCache.set leaves for run r's key when r stores the plan it
\* holds after the step.
StoredPlanRow(r) ==
    [key    |-> CacheKey(input[r], cfg[r]),
     value  |-> Serialize([next_tool |-> next_tool'[r],
                           tool_params |-> tool_params'[r],
                           analysis_steps |-> steps'[r]]),
     expiry |-> now + SEARCH_CACHE_TTL]

\* C11: plan() on a cache miss with the last step not final invokes the
\* planning LLM exactly once (none on entry, one on resumption), appends
\* exactly one step with is_final = false holding the raw response, sets
\* next_tool and tool_params, and writes {next_tool, tool_params, steps} to
\* the cache under the computed key.
C11_MissPlansOnceAppendsOneStepAndStores ==
    [][\A r \in Runs :
         /\ PlanEntered(r) => llmCalls'[r] = llmCalls[r]
         /\ PlanCalledLLM(r) =>
               /\ llmCalls'[r] = llmCalls[r] + 1
               /\ Len(steps'[r]) = Len(steps[r]) + 1
               /\ SubSeq(steps'[r], 1, Len(steps[r])) = steps[r]
               /\ Last(steps'[r]).analysis \in Responses
               /\ ~Last(steps'[r]).is_final
               /\ next_tool'[r]
                      = extract_tool_from_response(Last(steps'[r]).analysis)
               /\ tool_params'[r] # NoParams
               /\ enableCache => StoredPlanRow(r) \in cache']_vars

\* C11 witness: with caching on, a run has planned through the LLM for the
\* second time and the cache row of its key holds its two steps.
C11_Witness ==
    \E r \in Runs :
        /\ enableCache
        /\ event[r] = "plan_llm"
        /\ llmCalls[r] = 2
        /\ Len(steps[r]) = 2
        /\ \E e \in cache :
              /\ e.key = CacheKey(input[r], cfg[r])
              /\ Deserialize(e.value).analysis_steps = steps[r]

\* C12: with the cache feature flag off, plan() neither reads nor writes
\* the cache: the table never changes, a plan step whose last step is not
\* final adopts nothing and goes on to the planning LLM, whatever the cache
\* contains, and each such plan makes one LLM call.
C12_FlagOffBypassesCache ==
    [][~enableCache =>
         /\ cache' = cache
         /\ \A r \in Runs :
              /\ (PlanEntered(r) /\ ~LastIsFinal(steps[r])) =>
                     /\ planning'[r]
                     /\ ~cache_hit'[r]
                     /\ steps'[r] = steps[r]
                     /\ next_tool'[r] = next_tool[r]
                     /\ tool_params'[r] = tool_params[r]
              /\ PlanCalledLLM(r) => llmCalls'[r] = llmCalls[r] + 1]_vars

\* C12 witness: the flag is off, the table holds a live row for the run's
\* key, and the run has nevertheless planned twice through the LLM.
C12_Witness ==
    \E r \in Runs :
        /\ ~enableCache
        /\ LiveRows(cache, CacheKey(input[r], cfg[r]), now) # {}
        /\ event[r] = "plan_llm"
        /\ llmCalls[r] = 2
        /\ ~cache_hit[r]

\* C16: two runs that plan concurrently for one key and both miss do not
\* block each other: a run suspended before its LLM call can always resume;
\* and each write leaves for the key exactly the writer's plan, so that
\* after both have written the key holds the plan written last, whole.
C16_ConcurrentMissesLastWriteWins ==
    [][\A r \in Runs :
         /\ planning[r] => ENABLED AnalyzeLLM(r)
         /\ (PlanCalledLLM(r) /\ enableCache) =>
                {e \in cache' : e.key = CacheKey(input[r], cfg[r])}
                    = {StoredPlanRow(r)}]_vars

\* C16 witness: both runs missed before either wrote, both have written
\* different plans, and the key holds the plan of one of them only.
C16_Witness ==
    /\ enableCache
    /\ ticks = 0
    /\ \A r \in Runs : event[r] = "plan_llm" /\ llmCalls[r] = 1
    /\ steps["r1"] # steps["r2"]
    /\ CacheKey(input["r1"], cfg["r1"]) = CacheKey(input["r2"], cfg["r2"])
    /\ \E e \in cache :
          /\ e.key = CacheKey(input["r2"], cfg["r2"])
          /\ Deserialize(e.value).analysis_steps = steps["r2"]

\* The step completes a cache operation of the given name.
Completed(op) == lastOp' # lastOp /\ lastOp'.op = op

\* C13: over every sequence of set, get, delete and cleanup_expired and
\* every clock value, get(key) returns a value only if the table holds a row
\* for the key with now < expiry, and then that row's value; a row at or
\* past its expiry is never returned, deleted or not.
C13_GetReturnsOnlyUnexpired ==
    [][Completed("get") =>
         /\ \A v \in lastOp'.result :
               \E e \in cache : /\ e.key = lastOp'.key
                                /\ now < e.expiry
                                /\ Deserialize(e.value) = v
         /\ (\A e \in cache : e.key = lastOp'.key => e.expiry <= now)
               => lastOp'.result = {}]_vars

\* C13 witness: a get that did not fail returned absent although the table
\* still holds a row for the key, whose expiry has passed.
C13_Witness ==
    /\ lastOp.op = "get"
    /\ lastOp.ok
    /\ lastOp.at = now
    /\ lastOp.result = {}
    /\ \E e \in cache : e.key = lastOp.key /\ e.expiry < now

\* C14: a set(key, v2, ttl) that commits on a key holding v1 leaves exactly
\* one row for the key, with value v2 and expiry = time of the set + ttl;
\* no key ever has two rows, and a get that succeeds before the expiry
\* returns exactly the value of that row.
C14_SetReplacesValueAndExpiry ==
    [][/\ \A k \in CacheKeys : Cardinality({e \in cache' : e.key = k}) <= 1
       /\ (Completed("set") /\ lastOp'.ok) =>
             {e \in cache' : e.key = lastOp'.key}
                 = {[key |-> lastOp'.key,
                     value |-> Serialize(lastOp'.value),
                     expiry |-> now + lastOp'.ttl]}
       /\ (Completed("get") /\ lastOp'.ok) =>
             \A e \in cache :
                 (e.key = lastOp'.key /\ now < e.expiry) =>
                     lastOp'.result = {Deserialize(e.value)}]_vars

\* C14 witness: a set has replaced a live row holding another value and a
\* later expiry.
C14_Witness ==
    /\ lastOp.op = "set"
    /\ lastOp.ok
    /\ \E old \in lastOp.prior :
          /\ old.value # Serialize(lastOp.value)
          /\ old.expiry > lastOp.at + lastOp.ttl
          /\ old.expiry > lastOp.at
    /\ \E e \in cache : e.key = lastOp.key /\ e.value = Serialize(lastOp.value)

\* C15: cleanup_expired, interleaved with get, set, delete and other
\* cleanups, only deletes rows whose expiry has passed, never a row get
\* would return at that moment, and nothing else changes; a cleanup that
\* has read the clock can always complete, whatever the others did.
C15_CleanupDeletesOnlyExpired ==
    [][\A w \in Cleaners :
         /\ cleaner[w].pc = "deleting" => ENABLED CleanupDelete(w)
         /\ (cleaner[w].pc = "deleting" /\ cleaner'[w].pc = "done") =>
               /\ cache' \subseteq cache
               /\ \A e \in cache \ cache' :
                     /\ e.expiry < now
                     /\ e \notin LiveRows(cache, e.key, now)
               /\ \A k \in CacheKeys :
                     CacheGet(cache', k, now) = CacheGet(cache, k, now)
               /\ cleaner'[w].count = Cardinality(cache \ cache')]_vars

\* C15 witness: two cleanups read the clock at the same time with an
\* expired row in the table; one deleted it, the other completed with
\* nothing to delete, and a live row is still there.
C15_Witness ==
    /\ \A w \in Cleaners : cleaner[w].pc = "done" /\ cleaner[w].ok
    /\ cleaner["c1"].at = cleaner["c2"].at
    /\ cleaner["c1"].count = 1
    /\ cleaner["c2"].count = 0
    /\ \E e \in cache : e.expiry > now

\* Every LLM attempt of the call so far has failed.
NoAttemptValidated ==
    \A i \in 1..Len(attempts) : attempts[i].outcome # "valid"

\* C17: extract_with_fallback never raises to its caller: whatever the
\* text, schema, defaults and provider failures, it returns an object that
\* validates against the schema, with a boolean.
C17_ExtractWithFallbackNeverRaises ==
    /\ extractPc # "raised"
    /\ extractPc = "returned" =>
          /\ Validates(call.schema, extracted.params)
          /\ extracted.succeeded \in BOOLEAN

\* C18: when every LLM attempt has failed, what extract_with_fallback
\* returns has succeeded = False and holds the caller's default value for
\* every field the rule-based step does not derive; succeeded is True only
\* when the object returned is the one a successful LLM attempt produced.
C18_FailedExtractionReturnsDefaults ==
    extractPc = "returned" =>
        LET derived == {p[1] : p \in ExtractSimpleParams(SourceText,
                                                         call.default_values)}
            names == {f.name : f \in call.schema.fields}
        IN  /\ NoAttemptValidated =>
                  /\ ~extracted.succeeded
                  /\ \A p \in call.default_values :
                        (p[1] \in names /\ p[1] \notin derived)
                            => p \in extracted.params
            /\ extracted.succeeded =>
                  /\ attempts # <<>>
                  /\ Last(attempts).outcome = "valid"
                  /\ extracted.params = LLMObject(call.schema)

\* C18 witness: the test's call: every attempt failed validation and the
\* defaults of both fields came back with succeeded = False.
C18_Witness ==
    /\ extractPc = "returned"
    /\ call.schema = TestSchema
    /\ attempts # <<>>
    /\ \A i \in 1..Len(attempts) : attempts[i].outcome = "invalid"
    /\ ~extracted.succeeded
    /\ extracted.params = {<<"required_field", StrVal("default")>>,
                           <<"numeric_field", IntVal("42")>>}

\* C19: one call of extract makes at most max_retries + 1 LLM attempts
\* against any one provider (3 with the default of 2 retries), attempts
\* again only after a failed attempt, and stops at the first attempt that
\* validates.
C19_AtMostThreeAttemptsPerProvider ==
    /\ \A p \in {"openai", "replicate"} :
          Cardinality({i \in 1..Len(attempts) : attempts[i].provider = p}) <= 3
    /\ \A i \in 1..Len(attempts) :
          attempts[i].outcome = "valid" => i = Len(attempts)

\* Attempts i and i+1 belong to the same run of a provider's retry loop.
SameLoop(i) ==
    /\ attempts[i + 1].provider = attempts[i].provider
    /\ attempts[i + 1].stage = attempts[i].stage
    /\ attempts[i + 1].pass = attempts[i].pass
    /\ attempts[i + 1].attempt = attempts[i].attempt + 1

\* C20: within a provider's retry loop the first attempt's input is the
\* source text without feedback, and every attempt that follows a
\* validation failure has an input that contains the validation error
\* message of the attempt just before it, as its latest feedback.
C20_FeedbackOfPrecedingAttempt ==
    /\ \A i \in 1..Len(attempts) :
          attempts[i].attempt = 0 => attempts[i].input = <<>>
    /\ \A i \in 1..(Len(attempts) - 1) :
          /\ attempts[i + 1].attempt > 0 => SameLoop(i)
          /\ (SameLoop(i) /\ attempts[i].outcome = "invalid") =>
                /\ attempts[i + 1].input # <<>>
                /\ Last(attempts[i + 1].input) = attempts[i].message

\* C20 witness: the third attempt of a loop, after two validation failures
\* with different messages, carries the message of the second.
C20_Witness ==
    /\ Len(attempts) >= 3
    /\ attempts[3].attempt = 2
    /\ attempts[1].outcome = "invalid"
    /\ attempts[2].outcome = "invalid"
    /\ attempts[1].message # attempts[2].message
    /\ Last(attempts[3].input) = attempts[2].message

\* The order of the tools and their keywords as the claim lists them.
ClaimedOrder ==
    <<"document_search", "generate_insight", "sentiment_analysis",
      "theme_cluster", "llm_router", "summarize_memory">>

ClaimedKeywords(tool) ==
    CASE tool = "document_search"    -> {"document_search", "search"}
      [] tool = "generate_insight"   -> {"generate_insight", "insight"}
      [] tool = "sentiment_analysis" -> {"sentiment_analysis", "sentiment"}
      [] tool = "theme_cluster"      -> {"theme_cluster", "cluster"}
      [] tool = "llm_router"         -> {"router"}
      [] OTHER                       -> {"summarize_memory"}

\* The first tool of the claimed order with a keyword in the text, in any
\* letter case; generate_insight when there is none.
ClaimedTool(text) ==
    LET hits == {i \in 1..Len(ClaimedOrder) :
                    \E kw \in ClaimedKeywords(ClaimedOrder[i]) :
                        Occurs(kw, Lower(text))}
    IN  IF hits = {} THEN "generate_insight"
        ELSE ClaimedOrder[CHOOSE i \in hits : \A j \in hits : i <= j]

\* C21: tool-name inference returns, for every response text, the first
\* tool in the order document_search, generate_insight, sentiment_analysis,
\* theme_cluster, llm_router, summarize_memory one of whose keywords occurs
\* in the text, and generate_insight when none occurs; a text that mentions
\* only theme_cluster yields theme_cluster.
C21_InferenceFollowsClaimedOrder ==
    inferred # NotInferred =>
        \A i \in Implementations :
            /\ inferred[i] = ClaimedTool(response_text)
            /\ response_text = {"theme_cluster"} => inferred[i] = "theme_cluster"

\* The quotes of the themes of one name, concatenated in the themes' order.
RECURSIVE QuotesOf(_, _)
QuotesOf(name, list) ==
    IF list = <<>> THEN <<>>
    ELSE (IF Head(list).name = name THEN Head(list).quotes ELSE <<>>)
             \o QuotesOf(name, Tail(list))

KeywordsOf(name, list) ==
    UNION {Elements(list[i].keywords) :
               i \in {j \in 1..Len(list) : list[j].name = name}}

Shared(name, list) ==
    Cardinality({j \in 1..Len(list) : list[j].name = name}) > 1

NoDuplicates(list) ==
    \A i, j \in 1..Len(list) : list[i] = list[j] => i = j

\* C22: theme consolidation yields exactly one theme per distinct name; for
\* themes that share a name the merged quotes are the concatenation, in
\* order, of all their quotes and the merged keywords are the
\* duplicate-free union of all their keywords (the orchestrator's themes
\* carry no keywords, so only their quotes are compared).
C22_ConsolidationMergesQuotesAndKeywords ==
    themesPc = "consolidated" =>
        \A i \in ThemeImplementations :
            /\ \A name \in {t.name : t \in Elements(themes)} :
                   Cardinality({j \in 1..Len(merged[i]) :
                                   merged[i][j].name = name}) = 1
            /\ \A j \in 1..Len(merged[i]) :
                   LET name == merged[i][j].name
                   IN  /\ name \in {t.name : t \in Elements(themes)}
                       /\ Shared(name, themes) =>
                              /\ merged[i][j].quotes = QuotesOf(name, themes)
                              /\ i = "data_processor" =>
                                     /\ NoDuplicates(merged[i][j].keywords)
                                     /\ Elements(merged[i][j].keywords)
                                            = KeywordsOf(name, themes)

\* The value a metadata dict holds for a key that it has.
ValueOf(metadata, key) == (CHOOSE kv \in metadata : kv[1] = key)[2]

MetadataKeys == {"document_id", "filename"}

\* The prefix of the synthesized value, by shape and key.
ClaimedPrefix(shape, key) ==
    IF shape = "texts" THEN "text"
    ELSE IF key = "document_id" THEN "doc" ELSE "document"

\* C23: after preprocess, for each of the four input shapes, every TextItem
\* carries a document_id and a filename; a value supplied in the input is
\* kept, and the i-th of a list of texts gets "text-i".
C23_EveryTextItemHasDocumentIdAndFilename ==
    preprocessed =>
        \A i \in TextImplementations :
            /\ Len(text_data[i]) = Len(input_data.items)
            /\ \A k \in 1..Len(text_data[i]) : \A key \in MetadataKeys :
                   LET given == input_data.items[k]
                       item  == text_data[i][k]
                   IN  /\ item.has_metadata
                       /\ HasKey(item.metadata, key)
                       /\ given.has_metadata /\ HasKey(given.metadata, key)
                              => ValueOf(item.metadata, key)
                                     = ValueOf(given.metadata, key)
                       /\ input_data.shape = "texts"
                              => ValueOf(item.metadata, key) = Fmt("text", k - 1)

C25_ObserverNeverAffectsJob ==
    /\ [][streamVars' # streamVars => UNCHANGED jobVars]_vars
    /\ [](streamPc = "closed" /\ job.status \notin Terminal
             => <>(job.status \in Terminal))

C25_Witness ==
    /\ streamPc = "closed"
    /\ streamEvent = "error"
    /\ elapsed = timeout
    /\ job.status = "completed"

\* C26: once a memory record has a tag, fetch_memories and
\* get_recent_memories never change it, also when tagging is requested; a
\* record is classified only while it is untagged, and at most once.
C26_TaggedRecordKeepsItsTag ==
    [][\A m \in Memories :
           /\ memoryTag[m] # NoTag => memoryTag'[m] = memoryTag[m]
           /\ tagged'[m] # tagged[m] => memoryTag[m] = NoTag
           /\ tagged'[m] <= 1]_vars

\* C27: in the final report, every quote that carries a source has a source
\* document_id equal to the document_id of some TextItem of the run's
\* preprocessed input.
C27_QuoteSourcesAreInputDocuments ==
    sourcePc = "reported" => reportSources \subseteq documentIds

\* C28: every document returned by document_search has a score greater than
\* or equal to the requested min_score, on the vector path and on the
\* keyword fallback.
C28_ReturnedScoresReachMinScore ==
    searched =>
        \A doc \in toolResult.documents : doc.score >= searchInput.min_score

\* C30: similarity_search never raises; when the similarity mechanism is
\* unavailable it returns keyword matches that all carry the placeholder
\* score; when the keyword fallback fails as well it returns an empty result
\* set together with an explicit error field.
C30_SimilaritySearchDegradesWithoutRaising ==
    searched =>
        /\ ~storeResult.raised
        /\ searchInput.embedOk /\ ~searchInput.vectorOk /\ searchInput.fallbackOk
               => \A doc \in storeResult.documents : doc.score = FallbackScore
        /\ searchInput.embedOk /\ ~searchInput.vectorOk /\ ~searchInput.fallbackOk
               => /\ storeResult.documents = {}
                  /\ toolResult.error

\* C29: in one run postprocess executes once: when it writes final_results
\* no report has been written before, and it runs only after the
\* plan/execute loop has exited (the last step is final).
C29_PostprocessRunsOnce ==
    [][\A r \in Runs :
           Postprocess(r) =>
               /\ final_results[r] = {}
               /\ steps[r] # <<>> /\ Last(steps[r]).is_final]_vars

\* C31: if memory summarization fails during preprocess (the tool raises or
\* its LLM call fails), preprocess still completes with empty steps and
\* tool_results and the state carries no context_summary.
C31_FailedSummaryLeavesNoContextSummary ==
    preprocessedPc /\ summarizer.outcome \in {"raises", "llm_fails"} =>
        /\ prepared.analysis_steps = <<>>
        /\ prepared.tool_results = <<>>
        /\ ~prepared.has_summary

\* The sentences of a text that have words.
SentenceCount(text) == Cardinality({i \in 1..Len(text) : text[i].words > 0})

\* The summary the truncation of preprocess_data is given.
GivenSummary == summarize_memory(summarizer).summary

C32_CacheFailureNeverFailsPlan ==
    planPc =>
        /\ ~planOut.raised
        /\ (planIn.flag /\ ~planIn.getOk /\ ~EarlyReturn(planIn.analysis_steps))
               => /\ ~planOut.cache_hit
                  /\ planOut.llm_calls = 1
                  /\ planOut.next_tool
                         = extract_tool_from_response(planIn.response)
                  /\ Len(planOut.analysis_steps)
                         = Len(planIn.analysis_steps) + 1
        /\ (planIn.flag /\ ~planIn.setOk /\ planOut.llm_calls = 1)
               => /\ ~planOut.stored
                  /\ planOut.rows = planIn.rows
                  /\ planOut.next_tool \in ToolMap

C32_Witness ==
    /\ planPc
    /\ planIn.flag /\ ~planIn.getOk /\ ~planIn.setOk
    /\ LiveRows(planIn.rows, PlanKey, now) # {}
    /\ planOut.llm_calls = 1
    /\ ~planOut.stored

\* C40: when plan() is entered with the last step already final it makes no
\* LLM call and no cache access, appends no step, and leaves steps,
\* next_tool, tool_params and the cache unchanged; it only marks the
\* analysis as complete.
C40_FinalPlanOnlyMarksComplete ==
    (planPc /\ LastIsFinal(planIn.analysis_steps)) =>
        planOut = [Untouched(planIn) EXCEPT !.analysis_complete = TRUE]

C40_Witness ==
    /\ planPc
    /\ LastIsFinal(planIn.analysis_steps)
    /\ planIn.flag
    /\ LiveRows(planIn.rows, PlanKey, now) # {}
    /\ planOut.analysis_complete
    /\ planOut.cache_reads = 0

\* The unexpired rows stored under the key of run r.
FreshRows(r, rows) ==
    {e \in rows : e.key = CacheKey(input[r], cfg[r]) /\ e.expiry > now}

\* C38: with caching enabled the key of the plan does not depend on the
\* run's progress: the plan a run computes is stored under the key its next
\* plan looks up, and while that row is unexpired and no other run has
\* planned, every later plan of the run whose last step is not final hits
\* it: no LLM call, the same tool and parameters as before, and a single
\* planning step, however many tool results the run holds.
C38_LaterPlansHitTheFirstPlan ==
    [][\A r \in Runs :
         /\ (PlanCalledLLM(r) /\ enableCache) => FreshRows(r, cache') # {}
         /\ (/\ PlanEntered(r)
             /\ enableCache
             /\ llmCalls[r] = 1
             /\ \A o \in Runs \ {r} : llmCalls[o] = 0
             /\ Len(steps[r]) = 1
             /\ ~LastIsFinal(steps[r])
             /\ FreshRows(r, cache) # {})
               => /\ cache_hit'[r]
                  /\ llmCalls'[r] = 1
                  /\ next_tool'[r] = next_tool[r]
                  /\ tool_params'[r] = tool_params[r]
                  /\ steps'[r] = steps[r]
                  /\ cache' = cache]_vars

\* C38 witness: a run that planned once with the LLM has been served its own
\* plan again and has executed the same tool with the same parameters twice.
C38_Witness ==
    \E r \in Runs :
        /\ enableCache
        /\ event[r] = "plan_hit"
        /\ llmCalls[r] = 1
        /\ \A o \in Runs \ {r} : llmCalls[o] = 0
        /\ Len(steps[r]) = 1
        /\ Len(tool_results[r]) >= 2
        /\ tool_results[r][1].tool = tool_results[r][2].tool
        /\ tool_results[r][1].params = tool_results[r][2].params

\* C33: memory failures never fail a job: once run_analysis has ended, a job
\* whose memory storing raised is completed with the orchestrator's report,
\* and so is a job whose memory retrieval raised and whose orchestrator then
\* returned.
C33_MemoryFailuresNeverFailJob ==
    (runPc = "done" /\ caught # {}
        /\ ("store" \in caught \/ raised # "orchestration")) =>
        /\ job.status = "completed"
        /\ job.results \in Reports
        /\ job.error = NoJobError

C33_Witness ==
    /\ runPc = "done"
    /\ caught = {"context", "store"}
    /\ job.status = "completed"
    /\ job.results \in Reports

\* The call is configured with the secondary provider.
SecondaryConfigured == call.provider = "mixtral" /\ call.token

\* C34: when the secondary provider (Replicate) is configured, the first
\* attempt of extract goes to it; once it has given up with an error the
\* primary provider (OpenAI) is tried before extract gives up; and no
\* attempt goes to the secondary provider after one went to the primary.
C34_SecondaryFirstThenPrimaryOnly ==
    SecondaryConfigured =>
        /\ attempts # <<>> => attempts[1].provider = "replicate"
        /\ extractPc = "loop" /\ attempts = <<>> => loop.provider = "replicate"
        /\ \A i \in 1..Len(attempts) : \A j \in i..Len(attempts) :
              attempts[i].provider = "openai" => attempts[j].provider = "openai"
        /\ \A i \in 1..Len(attempts) :
              (attempts[i].provider = "openai") = (attempts[i].stage = "fallback")
        /\ (extractPc \in {"rule_based", "raised"}
                \/ (extractPc = "returned" /\ ~extracted.succeeded))
              => /\ \E i \in 1..Len(attempts) : attempts[i].provider = "openai"
                 /\ \E i \in 1..Len(attempts) :
                       /\ attempts[i].provider = "replicate"
                       /\ attempts[i].outcome \in {"error", "invalid"}

\* C34 witness: the secondary provider failed with a network error and with
\* malformed output, and the primary provider then extracted the parameters.
C34_Witness ==
    /\ SecondaryConfigured
    /\ extractPc = "returned"
    /\ extracted.succeeded
    /\ Last(attempts).provider = "openai"
    /\ \E i \in 1..Len(attempts) :
          attempts[i].provider = "replicate" /\ attempts[i].outcome = "error"
    /\ \E i \in 1..Len(attempts) :
          attempts[i].provider = "replicate" /\ attempts[i].outcome = "invalid"

\* What the claim has the rule-based step make of one default.
ClaimedFallbackValue(p) ==
    IF p[1] = "text" /\ p[2].type = "str" THEN StrVal(First5000)
    ELSE IF p[1] = "query" /\ p[2].type = "str" THEN StrVal(FirstSentence)
    ELSE p[2]

C39_PollingLoopEnds == <>(pollPc \in {"succeeded", "raised"})

\* The memories the query retrieved, and those of them that carry the tag
\* of a record (a memory without a tag counts as "other").
Retrieved == {fetchIn.rows[i] : i \in 1..Len(LimitK(fetchIn.rows, fetchIn.k))}
Members(tag) ==
    {m \in Retrieved : (IF m.tag = NoTag THEN "other" ELSE m.tag) = tag}

\* C36: with groupSimilar the output holds one record per tag of the
\* retrieved memories: the memory itself for a tag only it carries,
\* otherwise one summary record whose score is the highest score of the
\* group and whose metadata list exactly the ids and the size of the
\* group; the output is sorted by score, highest first, and has at most k
\* records.
C36_OneRecordPerTagSortedAndCapped ==
    (fetchPc /\ fetchIn.group_similar) =>
        LET out == {fetched[i] : i \in 1..Len(fetched)}
        IN  /\ Len(fetched) <= fetchIn.k
            /\ \A i \in 1..(Len(fetched) - 1) :
                  fetched[i].score >= fetched[i + 1].score
            /\ Cardinality(out) = Len(fetched)
            /\ \A m \in Retrieved : \E rec \in out :
                  rec.tag = m.tag \/ (m.tag = NoTag /\ rec.tag = "other")
            /\ \A rec \in out :
                  LET group == IF rec.is_summary THEN Members(rec.tag)
                               ELSE Members(IF rec.tag = NoTag THEN "other"
                                            ELSE rec.tag)
                  IN  /\ \A other \in out \ {rec} :
                            Members(IF other.tag = NoTag THEN "other"
                                    ELSE other.tag) # group
                      /\ Cardinality(group) = 1 => rec \in Retrieved
                      /\ Cardinality(group) > 1 =>
                            /\ rec.is_summary
                            /\ \A m \in group : rec.score >= m.score
                            /\ \E m \in group : rec.score = m.score
                            /\ rec.group_size = Cardinality(group)
                            /\ {rec.source_ids[i] : i \in 1..Len(rec.source_ids)}
                                  = {m.id : m \in group}
                            /\ Len(rec.source_ids) = Cardinality(group)

\* C36 witness: three memories, two of one tag with different scores, came
\* back as a summary record ahead of or behind the third memory.
C36_Witness ==
    /\ fetchPc
    /\ fetchIn.group_similar
    /\ Len(LimitK(fetchIn.rows, fetchIn.k)) = 3
    /\ Len(fetched) = 2
    /\ \E i \in 1..2 :
          /\ fetched[i].is_summary
          /\ fetched[i].group_size = 2
          /\ \E m \in Members(fetched[i].tag) : m.score < fetched[i].score
    /\ \E i \in 1..2 : fetched[i] \in Retrieved

====
